---- MODULE Spec2Model ----
(***************************************************************************)
(* Verification model of the perpetual grid trading engine:                *)
(*   PerpetualGridManager, GridLevel, PerpetualOrderBook,                  *)
(*   PerpetualOrderStatusTracker, PerpetualOrderManager,                   *)
(*   PerpetualBalanceTracker, PerpetualGridTradingStrategy and             *)
(*   PerpetualGridTradingBot.                                              *)
(*                                                                         *)
(* Prices, quantities and money are integers.  The configuration values    *)
(* are chosen so that the grid prices, fees and margins are exact; an      *)
(* average entry price is rounded down.                                    *)
(* Grid levels are named by their index in price_grids (the code keys      *)
(* grid_levels by price); 0 stands for None.                               *)
(***************************************************************************)
EXTENDS Integers, Sequences, FiniteSets, TLC

VARIABLES
    strategy_type,            \* PerpetualGridManager.strategy_type
    price_grids,              \* PerpetualGridManager.price_grids (ascending)
    reversion_price,          \* PerpetualGridManager.reversion_price
    grid_levels,              \* PerpetualGridManager.grid_levels: index -> GridLevel
    order_book,               \* PerpetualOrderBook
    balance,                  \* PerpetualBalanceTracker fields
    is_running,               \* PerpetualGridTradingBot.is_running
    running,                  \* PerpetualGridTradingStrategy._running
    monitoring,               \* tracker._monitoring_task is set and not done
    funding_check,            \* tracker._funding_check_task is set and not done
    tasks,                    \* the tracker's tasks: where each one stands
    grid_orders_initialized,  \* local of _run_live_or_paper_trading
    last_price,               \* local of _run_live_or_paper_trading (0 = None)
    connection_active,        \* PerpetualExchangeService.connection_active
    next_id,                  \* next identifier the venue assigns
    restarts,                 \* number of START_BOT restarts so far
    published,                \* events published on the bus by the last handler
    last_op                   \* the handler that ran last, with its inputs

vars == << strategy_type, price_grids, reversion_price, grid_levels, order_book,
           balance, is_running, running, monitoring, funding_check, tasks,
           grid_orders_initialized, last_price, connection_active, next_id,
           restarts, published, last_op >>

(***************************************************************************)
(* Bounds of the model.                                                    *)
(***************************************************************************)
NumGrids == 3
MaxRestarts == 1
MaxFilled == 1
LargeGrids == 7
MaxFills == 4
MaxFundingFees == 1
\* Orders marked pending on the grid when the grid manager is driven directly.
MaxPending == 1
\* Orders added when the order book is driven directly.
MaxOrders == 2
\* The largest margin, quantity and price handed to the order validator.
MaxMargin == 4
MaxQuantity == 4
MaxPrice == 6

(***************************************************************************)
(* Enumerations.                                                           *)
(***************************************************************************)
SIMPLE_GRID == "SIMPLE_GRID"
HEDGED_GRID == "HEDGED_GRID"
ARITHMETIC == "ARITHMETIC"
GEOMETRIC == "GEOMETRIC"

READY_TO_BUY_OR_SELL == "ready_to_buy_or_sell"
READY_TO_BUY == "ready_to_buy"
WAITING_FOR_BUY_FILL == "waiting_for_buy_fill"
READY_TO_SELL == "ready_to_sell"
WAITING_FOR_SELL_FILL == "waiting_for_sell_fill"

\* PerpetualOrderSide is a Python Enum with two values only: BUY_CLOSE is an
\* alias of BUY_OPEN ('buy') and SELL_OPEN an alias of SELL_CLOSE ('sell').
BUY_OPEN == "buy"
SELL_CLOSE == "sell"
SELL_OPEN == "sell"
BUY_CLOSE == "buy"
PerpetualOrderSide == { BUY_OPEN, SELL_CLOSE, SELL_OPEN, BUY_CLOSE }

MARKET == "market"
LIMIT == "limit"
ConditionalTypes == { "stop_market", "stop_limit", "take_profit_market",
                      "take_profit_limit", "trailing_stop" }
PerpetualOrderType == { MARKET, LIMIT } \cup ConditionalTypes

OPEN == "open"
CLOSED == "closed"
CANCELED == "canceled"
EXPIRED == "expired"
REJECTED == "rejected"
UNKNOWN == "unknown"
LIQUIDATED == "liquidated"
ADL == "adl"
PARTIAL_CLOSE == "partial_close"
PerpetualOrderStatus == { OPEN, CLOSED, CANCELED, EXPIRED, REJECTED, UNKNOWN,
                          LIQUIDATED, ADL, PARTIAL_CLOSE }

ORDER_FILLED == "order_filled"
ORDER_CANCELLED == "order_cancelled"
POSITION_UPDATE == "position_update"
ADL_TRIGGERED == "adl_triggered"

(***************************************************************************)
(* Grid construction (PerpetualGridManager).                               *)
(***************************************************************************)
RECURSIVE Pow(_, _)
Pow(b, e) == IF e = 0 THEN 1 ELSE b * Pow(b, e - 1)

\* The configuration: grid_ratio = 1/2, num_grids = NumGrids and a reversion
\* price that keeps the arithmetic below exact.
grid_ratio == [num |-> 1, den |-> 2]
num_grids == NumGrids
reversion_price_for(n) == 60 * Pow(2, 2 * n - 1)
config_reversion_price == reversion_price_for(num_grids)
Leverages == {1, 11}

adjust_grid_spacing(base_spacing, leverage) ==
    (base_spacing * (10 + (leverage - 1))) \div 10

RECURSIVE GeometricGrids(_, _)
GeometricGrids(current_price, n) ==
    IF n = 0 THEN << >>
    ELSE << current_price >> \o
         GeometricGrids((current_price * (grid_ratio.den + grid_ratio.num))
                            \div grid_ratio.den, n - 1)

\* _calculate_price_grids_and_central_price: the list of grid prices, for a
\* configuration of n grids.
price_grids_for(n, spacing_type, leverage) ==
    LET top_range == reversion_price_for(n)
        bottom_range == (reversion_price_for(n)
                           * Pow(grid_ratio.den - grid_ratio.num, n))
                        \div Pow(grid_ratio.den, n)
        grid_spacing == (top_range - bottom_range) \div (n - 1)
        adjusted_spacing == adjust_grid_spacing(grid_spacing, leverage)
    IN  IF spacing_type = ARITHMETIC
        THEN [i \in 1..n |-> bottom_range + (i - 1) * adjusted_spacing]
        ELSE GeometricGrids(bottom_range, n)

calculate_price_grids(spacing_type, leverage) ==
    price_grids_for(num_grids, spacing_type, leverage)

Levels == 1..Len(price_grids)
central_price == reversion_price

\* The levels in the order of price_grids.
LevelSeq == [ i \in 1..Len(price_grids) |-> i ]

\* initialize_grids_and_levels: sorted_buy_grids and sorted_sell_grids.
sorted_buy_grids ==
    IF strategy_type = SIMPLE_GRID
    THEN LET T(i) == price_grids[i] <= central_price IN SelectSeq(LevelSeq, T)
    ELSE LET T(i) == i < Len(price_grids) IN SelectSeq(LevelSeq, T)

sorted_sell_grids ==
    IF strategy_type = SIMPLE_GRID
    THEN LET T(i) == price_grids[i] > central_price IN SelectSeq(LevelSeq, T)
    ELSE LET T(i) == i > 1 IN SelectSeq(LevelSeq, T)

\* GridLevel.__init__
GridLevel(state) ==
    [ state |-> state, orders |-> << >>,
      paired_buy_level |-> 0, paired_sell_level |-> 0 ]

\* initialize_grids_and_levels: the initial state of every level.
\* A faulty layout that gives every level but the topmost the dual state,
\* whatever the strategy.
initial_grid_levels_dual(st, grids, central) ==
    [ i \in 1..Len(grids) |->
        GridLevel(IF grids[i] # grids[Len(grids)]
                  THEN READY_TO_BUY_OR_SELL ELSE READY_TO_SELL) ]

initial_grid_levels(st, grids, central) ==
    [ i \in 1..Len(grids) |->
        IF st = SIMPLE_GRID
        THEN GridLevel(IF grids[i] <= central THEN READY_TO_BUY ELSE READY_TO_SELL)
        ELSE GridLevel(IF grids[i] # grids[Len(grids)]
                       THEN READY_TO_BUY_OR_SELL ELSE READY_TO_SELL) ]


(***************************************************************************)
(* PerpetualGridManager: placement eligibility, pending, completion,       *)
(* pairing.  Operators take and return the grid_levels map.                *)
(***************************************************************************)

\* A faulty can_place_order that admits every placement.
can_place_order_always(st, level_state, order_side) == TRUE

\* can_place_order.  Because BUY_CLOSE aliases BUY_OPEN the second test of each
\* branch is never reached for 'buy', and for 'sell' no test matches: the
\* method then returns None, which its callers read as false.
can_place_order(st, level_state, order_side) ==
    IF st = SIMPLE_GRID
    THEN IF order_side = BUY_OPEN THEN level_state = READY_TO_BUY
         ELSE IF order_side = BUY_CLOSE THEN level_state = READY_TO_SELL
         ELSE FALSE
    ELSE IF st = HEDGED_GRID
    THEN IF order_side = BUY_OPEN
         THEN level_state \in {READY_TO_BUY, READY_TO_BUY_OR_SELL}
         ELSE IF order_side = BUY_CLOSE
         THEN level_state \in {READY_TO_SELL, READY_TO_BUY_OR_SELL}
         ELSE FALSE
    ELSE FALSE

\* PerpetualGridManager.max_placed_orders, as the bot constructs the manager.
max_placed_orders == 5

\* mark_order_pending: GridLevel.add_order, then the state from the side.
mark_order_pending(gl, level, order_id, order_side) ==
    [ gl EXCEPT ![level] =
        [ @ EXCEPT !.orders = Append(@, order_id),
                   !.state = IF order_side = BUY_OPEN THEN WAITING_FOR_BUY_FILL
                             ELSE IF order_side = SELL_OPEN THEN WAITING_FOR_SELL_FILL
                             ELSE @ ] ]

\* complete_order
complete_order(st, gl, level, order_side) ==
    IF st = SIMPLE_GRID
    THEN [ gl EXCEPT ![level].state =
             IF order_side = BUY_OPEN THEN READY_TO_SELL ELSE READY_TO_BUY ]
    ELSE IF st = HEDGED_GRID
    THEN IF order_side = BUY_OPEN
         THEN LET g1 == [ gl EXCEPT ![level].state = READY_TO_SELL ]
                  p == g1[level].paired_sell_level
              IN  IF p # 0 THEN [ g1 EXCEPT ![p].state = READY_TO_SELL ] ELSE g1
         ELSE IF order_side = BUY_CLOSE
         THEN LET g1 == [ gl EXCEPT ![level].state = READY_TO_BUY ]
                  p == g1[level].paired_buy_level
              IN  IF p # 0 THEN [ g1 EXCEPT ![p].state = READY_TO_BUY ] ELSE g1
         ELSE gl
    ELSE gl

\* A faulty pair_grid_levels that sets the reference on the source level only.
pair_grid_levels_source_only(gl, source, target, pairing_type) ==
    IF pairing_type = "buy"
    THEN [ gl EXCEPT ![source].paired_buy_level = target ]
    ELSE IF pairing_type = "sell"
    THEN [ gl EXCEPT ![source].paired_sell_level = target ]
    ELSE gl

\* pair_grid_levels.  Any other pairing type raises ValueError and changes
\* nothing.  The second assignment acts on the result of the first (source and
\* target may be the same level).
pair_grid_levels(gl, source, target, pairing_type) ==
    IF pairing_type = "buy"
    THEN LET g1 == [ gl EXCEPT ![source].paired_buy_level = target ]
         IN  [ g1 EXCEPT ![target].paired_sell_level = source ]
    ELSE IF pairing_type = "sell"
    THEN LET g1 == [ gl EXCEPT ![source].paired_sell_level = target ]
         IN  [ g1 EXCEPT ![target].paired_buy_level = source ]
    ELSE gl

\* get_paired_sell_level: 0 when there is none.
get_paired_sell_level(st, gl, buy_level) ==
    IF st = SIMPLE_GRID
    THEN LET T(s) == /\ can_place_order(st, gl[s].state, BUY_CLOSE)
                     /\ price_grids[s] > price_grids[buy_level]
             hits == SelectSeq(sorted_sell_grids, T)
         IN  IF hits = << >> THEN 0 ELSE hits[1]
    ELSE IF st = HEDGED_GRID
    THEN IF buy_level + 1 <= Len(price_grids) THEN buy_level + 1 ELSE 0
    ELSE 0

\* get_initial_order_quantity, in units of the configured grid value.
get_initial_order_quantity(current_price) ==
    Cardinality({ i \in Levels : price_grids[i] > current_price })

(***************************************************************************)
(* PerpetualOrderBook.  orders maps an identifier to the order object; the *)
(* buckets and the non-grid list hold identifiers; order_to_grid_map maps  *)
(* the identifiers of grid orders to their level.                          *)
(***************************************************************************)
EmptyOrderBook ==
    [ orders |-> << >>,
      long_orders |-> [ open |-> << >>, close |-> << >> ],
      short_orders |-> [ open |-> << >>, close |-> << >> ],
      conditional_orders |-> << >>,
      order_to_grid_map |-> << >>,
      non_grid_orders |-> << >> ]

PerpetualOrder(identifier, status, order_type, side, price) ==
    [ identifier |-> identifier, status |-> status, order_type |-> order_type,
      side |-> side, price |-> price ]

\* add_order(order, grid_level); grid_level = 0 is None.
add_order(book, order, grid_level) ==
    LET id == order.identifier
        b0 == [ book EXCEPT !.orders = @ @@ (id :> order) ]
        b1 == IF order.order_type \in ConditionalTypes
              THEN [ b0 EXCEPT !.conditional_orders = Append(@, id) ]
              ELSE IF order.side \in {BUY_OPEN, SELL_CLOSE}
              THEN IF order.side = BUY_OPEN
                   THEN [ b0 EXCEPT !.long_orders.open = Append(@, id) ]
                   ELSE [ b0 EXCEPT !.long_orders.close = Append(@, id) ]
              ELSE IF order.side = SELL_OPEN
                   THEN [ b0 EXCEPT !.short_orders.open = Append(@, id) ]
                   ELSE [ b0 EXCEPT !.short_orders.close = Append(@, id) ]
    IN  IF grid_level # 0
        THEN [ b1 EXCEPT !.order_to_grid_map = @ @@ (id :> grid_level) ]
        ELSE [ b1 EXCEPT !.non_grid_orders = Append(@, id) ]

\* The buckets in the order get_open_orders and update_order_status scan them.
AllBucketOrders(book) ==
    book.long_orders.open \o book.long_orders.close \o
    book.short_orders.open \o book.short_orders.close \o
    book.conditional_orders

SeqRange(s) == { s[i] : i \in 1..Len(s) }

\* A faulty get_open_orders that does not filter on is_open().
get_open_orders_unfiltered(book) == AllBucketOrders(book)

\* get_open_orders
get_open_orders(book) ==
    LET T(id) == book.orders[id].status = OPEN
    IN  SelectSeq(AllBucketOrders(book), T)

\* get_grid_level_for_order: 0 is None.
get_grid_level_for_order(book, id) ==
    IF id \in DOMAIN book.order_to_grid_map THEN book.order_to_grid_map[id] ELSE 0

\* A faulty update_order_status that loses the new status.
update_order_status_lost(book, order_id, new_status) == book

\* update_order_status: the first order of the buckets with that identifier.
update_order_status(book, order_id, new_status) ==
    IF order_id \in SeqRange(AllBucketOrders(book))
    THEN [ book EXCEPT !.orders[order_id].status = new_status ]
    ELSE book


(***************************************************************************)
(* PerpetualBalanceTracker.                                                *)
(***************************************************************************)

\* FeeCalculator.calculate_fee: fee_rate * trade value, with a fee rate of 1/20.
calculate_fee(trade_value) == trade_value \div 20

\* _calculate_required_margin, with initial_margin_ratio = 0.1.
calculate_required_margin(quantity, price) == (quantity * price) \div 10

\* A faulty _handle_open_position that takes the price of the last fill for the
\* average price.
handle_open_position_last_price(bal, order, side) ==
    IF side = BUY_OPEN
    THEN [ bal EXCEPT !.long_position = @ + order.filled,
                      !.long_avg_price = order.price ]
    ELSE [ bal EXCEPT !.short_position = @ + order.filled,
                      !.short_avg_price = order.price ]

\* _handle_open_position
handle_open_position(bal, order, side) ==
    IF side = BUY_OPEN
    THEN LET new_position == bal.long_position + order.filled
             new_cost == bal.long_position * bal.long_avg_price
                         + order.filled * order.price
         IN  [ bal EXCEPT !.long_position = new_position,
                          !.long_avg_price = IF new_position > 0
                                             THEN new_cost \div new_position ELSE 0 ]
    ELSE LET new_position == bal.short_position + order.filled
             new_cost == bal.short_position * bal.short_avg_price
                         + order.filled * order.price
         IN  [ bal EXCEPT !.short_position = new_position,
                          !.short_avg_price = IF new_position > 0
                                              THEN new_cost \div new_position ELSE 0 ]

Min(a, b) == IF a <= b THEN a ELSE b

\* A faulty _handle_close_position that closes the whole filled quantity,
\* whatever the position holds.
handle_close_position_unclamped(bal, order, position_side) ==
    IF position_side = BUY_OPEN
    THEN LET left == bal.long_position - order.filled
         IN  [ bal EXCEPT !.long_position = left,
                          !.long_avg_price = IF left = 0 THEN 0 ELSE @ ]
    ELSE LET left == bal.short_position - order.filled
         IN  [ bal EXCEPT !.short_position = left,
                          !.short_avg_price = IF left = 0 THEN 0 ELSE @ ]

\* _handle_close_position
handle_close_position(bal, order, position_side) ==
    IF position_side = BUY_OPEN
    THEN LET close_quantity == Min(bal.long_position, order.filled)
             pnl == close_quantity * (order.price - bal.long_avg_price)
             left == bal.long_position - close_quantity
         IN  [ bal EXCEPT !.long_position = left,
                          !.long_avg_price = IF left = 0 THEN 0 ELSE @,
                          !.realized_pnl = @ + pnl,
                          !.margin_balance = @ + pnl ]
    ELSE LET close_quantity == Min(bal.short_position, order.filled)
             pnl == close_quantity * (bal.short_avg_price - order.price)
             left == bal.short_position - close_quantity
         IN  [ bal EXCEPT !.short_position = left,
                          !.short_avg_price = IF left = 0 THEN 0 ELSE @,
                          !.realized_pnl = @ + pnl,
                          !.margin_balance = @ + pnl ]

\* _update_balance_on_order_completion, the subscriber of ORDER_FILLED.
update_balance_on_order_completion(bal, order) ==
    LET fee == calculate_fee(order.filled * order.price)
        required_margin == calculate_required_margin(order.filled, order.price)
        b1 == [ bal EXCEPT !.total_fees = @ + fee ]
        b2 == IF order.side = BUY_OPEN
              THEN IF b1.short_position > 0
                   THEN handle_close_position(b1, order, SELL_OPEN)
                   ELSE handle_open_position(b1, order, BUY_OPEN)
              ELSE IF b1.long_position > 0
                   THEN handle_close_position(b1, order, BUY_OPEN)
                   ELSE handle_open_position(b1, order, SELL_OPEN)
        b3 == [ b2 EXCEPT !.reserved_margin =
                  IF @ - required_margin < 0 THEN 0 ELSE @ - required_margin ]
    IN  [ b3 EXCEPT !.margin_balance = @ - fee ]

\* A faulty _handle_funding_fee that books the fee and leaves the margin
\* balance alone.
handle_funding_fee_unpaid(bal, amount) ==
    [ bal EXCEPT !.funding_fees = @ + amount ]

\* _handle_funding_fee, the subscriber of FUNDING_FEE_CHARGED; amount is
\* fee_data.get('amount', 0).
handle_funding_fee(bal, amount) ==
    [ bal EXCEPT !.funding_fees = @ + amount, !.margin_balance = @ - amount ]

\* PerpetualBalanceTracker.__init__
InitialBalance ==
    [ margin_balance |-> 0, reserved_margin |-> 0, total_fees |-> 0,
      long_position |-> 0, short_position |-> 0,
      long_avg_price |-> 0, short_avg_price |-> 0,
      unrealized_pnl |-> 0, realized_pnl |-> 0, funding_fees |-> 0 ]

\* setup_balances for an account that holds initial_margin and no position.
setup_balances_of(bal, initial_margin) ==
    [ bal EXCEPT !.margin_balance = initial_margin,
                 !.long_position = 0, !.short_position = 0,
                 !.long_avg_price = 0, !.short_avg_price = 0,
                 !.unrealized_pnl = 0 ]

\* setup_balances: the account holds a margin of 100000 and no position.
setup_balances(bal) == setup_balances_of(bal, 100000)

\* get_available_margin
get_available_margin(bal) == bal.margin_balance - bal.reserved_margin

InsufficientMarginError == "InsufficientMarginError"

\* reserve_margin_for_order: whether it raises InsufficientMarginError.
reserve_margin_raises(bal, quantity, price) ==
    get_available_margin(bal) < calculate_required_margin(quantity, price)

\* reserve_margin_for_order: the balance after the call (unchanged when it
\* raises).
reserve_margin_for_order(bal, quantity, price) ==
    IF reserve_margin_raises(bal, quantity, price) THEN bal
    ELSE [ bal EXCEPT !.reserved_margin =
                          @ + calculate_required_margin(quantity, price) ]

(***************************************************************************)
(* PerpetualOrderStatusTracker and the execution strategy's parsing.       *)
(***************************************************************************)

\* What the venue's fetch_order may carry in "status": the nine known strings,
\* no status at all, or a string the enumeration does not know.
NoStatus == "None"
RawStatuses == PerpetualOrderStatus \cup { NoStatus, "filled" }
ValueError == "ValueError"
DataFetchError == "DataFetchError"

\* _parse_order_result: a missing status reads as OPEN; PerpetualOrderStatus(s)
\* raises ValueError for a string that is no member.
parse_order_result(raw_status) ==
    IF raw_status = NoStatus THEN OPEN
    ELSE IF raw_status \in PerpetualOrderStatus THEN raw_status
    ELSE ValueError

\* EventBus.publish_sync as the tracker calls it: the event carries the remote
\* order; book_status is the status the order book holds for it at that time.
Event(kind, book, remote) ==
    [ kind |-> kind, identifier |-> remote.identifier, status |-> remote.status,
      book_status |-> IF remote.identifier \in DOMAIN book.orders
                      THEN book.orders[remote.identifier].status ELSE NoStatus ]

\* A faulty ordering: publish the event, then update the book.
publish_then_update(book, remote, new_status, kind) ==
    [ book |-> update_order_status(book, remote.identifier, new_status),
      events |-> << Event(kind, book, remote) >> ]

\* Update the book, then publish one event.
update_then_publish(book, remote, new_status, kind) ==
    LET b == update_order_status(book, remote.identifier, new_status)
    IN  [ book |-> b, events |-> << Event(kind, b, remote) >> ]

\* _handle_liquidation, _handle_adl, _handle_partial_close
handle_liquidation(book, order) ==
    update_then_publish(book, order, LIQUIDATED, POSITION_UPDATE)

handle_adl(book, order) ==
    update_then_publish(book, order, ADL, ADL_TRIGGERED)

handle_partial_close(book, order) ==
    update_then_publish(book, order, PARTIAL_CLOSE, POSITION_UPDATE)

\* A faulty dispatch that converts UNKNOWN to CANCELED.
unknown_as_canceled(book, remote_order) ==
    IF remote_order.status = UNKNOWN
    THEN update_then_publish(book, remote_order, CANCELED, ORDER_CANCELLED)
    ELSE [ book |-> book, events |-> << >> ]

\* A faulty dispatch that takes a partial fill for a fill.
partial_fill_as_fill(book, remote_order) ==
    IF remote_order.status = OPEN /\ remote_order.filled > 0
    THEN update_then_publish(book, remote_order, CLOSED, ORDER_FILLED)
    ELSE [ book |-> book, events |-> << >> ]

\* _handle_order_status_change: the new book and the events published.
handle_order_status_change(book, remote_order) ==
    IF remote_order.status = UNKNOWN
    THEN [ book |-> book, events |-> << >> ]
    ELSE IF remote_order.status = LIQUIDATED
    THEN handle_liquidation(book, remote_order)
    ELSE IF remote_order.status = ADL
    THEN handle_adl(book, remote_order)
    ELSE IF remote_order.status = PARTIAL_CLOSE
    THEN handle_partial_close(book, remote_order)
    ELSE IF remote_order.status = CLOSED
    THEN update_then_publish(book, remote_order, CLOSED, ORDER_FILLED)
    ELSE IF remote_order.status = CANCELED
    THEN update_then_publish(book, remote_order, CANCELED, ORDER_CANCELLED)
    ELSE [ book |-> book, events |-> << >> ]

\* The bus delivers each event to its subscribers in turn.  The only
\* subscriber that changes the trading state is the balance tracker's, on
\* ORDER_FILLED; the event's payload is the remote order.
RECURSIVE deliver(_, _, _)
deliver(bal, events, remote_order) ==
    IF events = << >> THEN bal
    ELSE deliver(IF Head(events).kind = ORDER_FILLED
                 THEN update_balance_on_order_completion(bal, remote_order)
                 ELSE bal,
                 Tail(events), remote_order)

(***************************************************************************)
(* PerpetualOrderManager.  m is [gl, book, nid]: the grid levels, the      *)
(* order book and the next identifier of the venue.                        *)
(***************************************************************************)
OrderExecutionFailedError == "OrderExecutionFailedError"

\* A faulty perform_initial_purchase that registers the order at the lowest
\* grid level.
perform_initial_purchase_at_level(m, current_price, outcome) ==
    IF get_initial_order_quantity(current_price) <= 0 THEN m
    ELSE IF outcome = OrderExecutionFailedError THEN m
    ELSE [ m EXCEPT
             !.book = add_order(@, PerpetualOrder(m.nid, outcome, MARKET,
                                                  BUY_OPEN, current_price), 1),
             !.nid = @ + 1 ]

\* perform_initial_purchase.  outcome is what execute_market_order does:
\* raise OrderExecutionFailedError, or return the order parsed from the venue's
\* answer to place_order, whose status is OPEN unless that answer said closed.
perform_initial_purchase(m, current_price, outcome) ==
    IF get_initial_order_quantity(current_price) <= 0 THEN m
    ELSE IF outcome = OrderExecutionFailedError THEN m
    ELSE [ m EXCEPT
             !.book = add_order(@, PerpetualOrder(m.nid, outcome, MARKET,
                                                  BUY_OPEN, current_price), 0),
             !.nid = @ + 1 ]

\* A faulty loop of initialize_grid_orders that gives up at the first level whose
\* order the venue does not return.
RECURSIVE place_initial_orders_until_failure(_, _, _, _, _, _)
place_initial_orders_until_failure(st, m, levels, side, current_price, outcome) ==
    IF levels = << >> THEN m
    ELSE LET l == Head(levels)
             skip == IF side = BUY_OPEN
                     THEN price_grids[l] >= current_price
                     ELSE price_grids[l] <= current_price
             attempt == ~skip /\ can_place_order(st, m.gl[l].state, side)
             m1 == IF attempt
                   THEN [ gl |-> mark_order_pending(m.gl, l, m.nid, side),
                          book |-> add_order(m.book,
                                      PerpetualOrder(m.nid, OPEN, LIMIT, side,
                                                     price_grids[l]), l),
                          nid |-> m.nid + 1 ]
                   ELSE m
         IN  IF attempt /\ outcome[l] # "ok" THEN m
             ELSE place_initial_orders_until_failure(st, m1, Tail(levels), side,
                                                     current_price, outcome)

\* The body of one loop of initialize_grid_orders, over the levels in list
\* order.  outcome[l] is what execute_limit_order does for level l: it returns
\* an order ("ok") or None, or raises OrderExecutionFailedError or another
\* exception; but for "ok" the level is left as it is.
RECURSIVE place_initial_orders(_, _, _, _, _, _)
place_initial_orders(st, m, levels, side, current_price, outcome) ==
    IF levels = << >> THEN m
    ELSE LET l == Head(levels)
             skip == IF side = BUY_OPEN
                     THEN price_grids[l] >= current_price
                     ELSE price_grids[l] <= current_price
             m1 == IF \/ skip
                      \/ ~can_place_order(st, m.gl[l].state, side)
                      \/ outcome[l] # "ok"
                   THEN m
                   ELSE [ gl |-> mark_order_pending(m.gl, l, m.nid, side),
                          book |-> add_order(m.book,
                                      PerpetualOrder(m.nid, OPEN, LIMIT, side,
                                                     price_grids[l]), l),
                          nid |-> m.nid + 1 ]
         IN  place_initial_orders(st, m1, Tail(levels), side, current_price, outcome)

\* initialize_grid_orders: the buy grids, then the sell grids.
initialize_grid_orders(st, m, current_price, outcome) ==
    place_initial_orders(st,
        place_initial_orders(st, m, sorted_buy_grids, BUY_OPEN, current_price, outcome),
        sorted_sell_grids, SELL_OPEN, current_price, outcome)


(***************************************************************************)
(* PerpetualOrderStatusTracker: its two loops.  t is [monitoring,          *)
(* funding_check]: whether each task is set and not done.                  *)
(***************************************************************************)

\* A faulty start_tracking that creates the monitoring task only.
start_tracking_monitoring_only(t) ==
    IF t.monitoring THEN t ELSE [ t EXCEPT !.monitoring = TRUE ]

\* start_tracking: nothing when the monitoring task runs; else both tasks are
\* created.
start_tracking(t) ==
    IF t.monitoring THEN t ELSE [ monitoring |-> TRUE, funding_check |-> TRUE ]

\* stop_tracking, when it has returned: both tasks cancelled and awaited.
stop_tracking(t) == [ monitoring |-> FALSE, funding_check |-> FALSE ]

\* The tasks of the tracker after construction: none.  mon and fund are the
\* positions of _track_open_order_statuses and _check_funding_rate, registry
\* is _active_tasks (the query tasks in flight, by order), stop the position of
\* stop_tracking; cancel_mon, cancel_fund and cancel_child hold the tasks on
\* which cancel() was called and that have not run since.  stopped and
\* cancelled record what happened: stop_tracking has returned and
\* start_tracking was not called since; the query tasks that ended by
\* cancellation since start_tracking.  orphans counts the funding tasks that
\* run while _funding_check_task no longer refers to them.
NoTasks ==
    [ mon |-> "none", fund |-> "none", registry |-> {},
      cancel_mon |-> FALSE, cancel_fund |-> FALSE, cancel_child |-> {},
      stop |-> "idle", stopped |-> FALSE, cancelled |-> {}, orphans |-> 0 ]

\* A task that is set and not done.
Running(pos) == pos \notin { "none", "done" }

\* Task.cancel() on the monitoring task: a request, delivered when the task
\* runs next; a task awaiting gather passes the request to the gathered tasks.
cancel_monitoring_task(t) ==
    IF ~Running(t.mon) THEN t
    ELSE [ t EXCEPT !.cancel_mon = TRUE,
                    !.cancel_child = IF t.mon = "gather" THEN @ \cup t.registry ELSE @ ]

\* Task.cancel() on the funding task.
cancel_funding_task(t) ==
    IF ~Running(t.fund) THEN t ELSE [ t EXCEPT !.cancel_fund = TRUE ]

\* The end of stop_tracking: _cancel_active_tasks cancels what the registry
\* holds and awaits it, then clears the registry; stop_tracking returns.
stop_tracking_active_tasks(t) ==
    IF t.registry = {}
    THEN [ t EXCEPT !.stop = "idle", !.stopped = TRUE ]
    ELSE [ t EXCEPT !.cancel_child = @ \cup t.registry, !.stop = "await_children" ]

\* A faulty stop_tracking that leaves the funding task alone.
stop_tracking_skip_funding_task(t) == stop_tracking_active_tasks(t)

\* The second part of stop_tracking: cancel the funding task and await it.
stop_tracking_funding_task(t) ==
    IF t.fund # "none"
    THEN [ cancel_funding_task(t) EXCEPT !.stop = "await_fund" ]
    ELSE stop_tracking_active_tasks(t)

\* The first part of stop_tracking: cancel the monitoring task and await it.
stop_tracking_monitoring_task(t) ==
    IF t.mon # "none"
    THEN [ cancel_monitoring_task(t) EXCEPT !.stop = "await_mon" ]
    ELSE stop_tracking_funding_task(t)

\* start_tracking on the tasks: both attributes are assigned new tasks; a
\* funding task that _funding_check_task referred to keeps running.
start_tracking_tasks(t) ==
    IF Running(t.mon) THEN t
    ELSE [ t EXCEPT !.mon = "new", !.fund = "new", !.stopped = FALSE,
                    !.cancelled = {},
                    !.orphans = @ + IF Running(t.fund) THEN 1 ELSE 0 ]

(***************************************************************************)
(* The state after construction, and the handlers.                         *)
(***************************************************************************)

\* last_op names the handler that ran last and the inputs it ran with.
NoOp ==
    [ op |-> "init", identifier |-> 0, raw_status |-> NoStatus, filled |-> 0,
      price |-> 0, source |-> 0, target |-> 0, pairing_type |-> "",
      outcome |-> << >>, side |-> "", allowed |-> FALSE ]

SpacingTypes == { ARITHMETIC, GEOMETRIC }

Init ==
    /\ strategy_type \in { SIMPLE_GRID, HEDGED_GRID }
    /\ \E spacing_type \in SpacingTypes, leverage \in Leverages :
           price_grids = calculate_price_grids(spacing_type, leverage)
    /\ reversion_price = config_reversion_price
    /\ grid_levels = initial_grid_levels(strategy_type, price_grids, reversion_price)
    /\ order_book = EmptyOrderBook
    /\ balance = InitialBalance
    /\ is_running = FALSE
    /\ running = TRUE
    /\ monitoring = FALSE
    /\ funding_check = FALSE
    /\ tasks = NoTasks
    /\ grid_orders_initialized = FALSE
    /\ last_price = 0
    /\ connection_active = FALSE
    /\ next_id = 1
    /\ restarts = 0
    /\ published = << >>
    /\ last_op = NoOp


\* _initialize_grid_orders_once seeds the grid on this tick.
Seeds(current_price) ==
    ~grid_orders_initialized /\ last_price # 0 /\ current_price < reversion_price

\* What the venue may answer to the orders of a tick; it is asked only on the
\* tick that seeds the grid.
LimitOutcomes(current_price) ==
    IF Seeds(current_price)
    THEN [ Levels -> { "ok", OrderExecutionFailedError } ]
    ELSE { [ l \in Levels |-> "ok" ] }

MarketOutcomes(current_price) ==
    IF Seeds(current_price) /\ get_initial_order_quantity(current_price) > 0
    THEN { OPEN, CLOSED, OrderExecutionFailedError }
    ELSE { OPEN }

\* PerpetualGridTradingBot.run up to the ticker loop: is_running,
\* setup_balances, start_tracking, initialize_strategy, strategy.run and the start of _run_live_or_paper_trading
\* and _subscribe_to_ticker_updates.
Run ==
    /\ last_op.op = "init"
    /\ is_running' = TRUE
    /\ LET t == start_tracking([ monitoring |-> monitoring,
                                 funding_check |-> funding_check ])
       IN  monitoring' = t.monitoring /\ funding_check' = t.funding_check
    /\ grid_levels' = initial_grid_levels(strategy_type, price_grids, reversion_price)
    /\ running' = TRUE
    /\ last_price' = 0
    /\ grid_orders_initialized' = FALSE
    /\ connection_active' = TRUE
    /\ published' = << >>
    /\ balance' = setup_balances(balance)
    /\ last_op' = [ NoOp EXCEPT !.op = "run" ]
    /\ UNCHANGED << strategy_type, price_grids, reversion_price, order_book,
                    next_id, restarts, tasks >>

\* on_ticker_update(current_price), with _initialize_grid_orders_once,
\* perform_initial_purchase and initialize_grid_orders.
OnTickerUpdate(current_price, market_outcome, outcome) ==
    /\ connection_active
    /\ running
    /\ IF Seeds(current_price)
       THEN LET m0 == [ gl |-> grid_levels, book |-> order_book, nid |-> next_id ]
                m1 == perform_initial_purchase(m0, current_price, market_outcome)
                m2 == initialize_grid_orders(strategy_type, m1, current_price, outcome)
            IN  /\ grid_levels' = m2.gl
                /\ order_book' = m2.book
                /\ next_id' = m2.nid
                /\ grid_orders_initialized' = TRUE
       ELSE UNCHANGED << grid_levels, order_book, next_id, grid_orders_initialized >>
    /\ last_price' = current_price
    /\ published' = << >>
    /\ last_op' = [ NoOp EXCEPT !.op = "tick", !.price = current_price ]
    /\ UNCHANGED << strategy_type, price_grids, reversion_price, balance,
                    is_running, running, monitoring, funding_check, tasks,
                    connection_active, restarts >>

\* The executed quantity the venue reports with a status.  Every order has
\* amount OrderAmount: an order still open has executed 0..MaxFilled of it, a
\* closed one all of it.  The handlers read the quantity for no other status.
OrderAmount == MaxFilled + 1

Filled(raw_status) ==
    IF parse_order_result(raw_status) = OPEN THEN 0..MaxFilled
    ELSE IF raw_status = CLOSED THEN { OrderAmount }
    ELSE { 0 }

\* _query_and_handle_order(local_order): get_order answers with raw_status and
\* filled, or fails with DataFetchError; then _handle_order_status_change and
\* the synchronous delivery of what it publishes.
HandleQueriedOrder(id, raw_status, filled) ==
    /\ monitoring
    /\ id \in SeqRange(get_open_orders(order_book))
    /\ LET local_order == order_book.orders[id]
           parsed == parse_order_result(raw_status)
           remote_order == [ identifier |-> id, status |-> parsed, filled |-> filled,
                             side |-> local_order.side, price |-> local_order.price ]
           r == handle_order_status_change(order_book, remote_order)
       IN  IF raw_status = DataFetchError \/ parsed = ValueError
           THEN /\ published' = << >>
                /\ UNCHANGED << order_book, balance >>
           ELSE /\ order_book' = r.book
                /\ published' = r.events
                /\ balance' = deliver(balance, r.events, remote_order)
    /\ last_op' = [ NoOp EXCEPT !.op = "poll", !.identifier = id,
                                !.raw_status = raw_status, !.filled = filled ]
    /\ UNCHANGED << strategy_type, price_grids, reversion_price, grid_levels,
                    is_running, running, grid_orders_initialized,
                    last_price, connection_active, next_id, restarts >>

\* The query task of one open order, while the tracker runs.
QueryAndHandleOrder(id, raw_status, filled) ==
    /\ HandleQueriedOrder(id, raw_status, filled)
    /\ UNCHANGED << monitoring, funding_check, tasks >>

\* PerpetualGridTradingBot._stop: stop_tracking, strategy.stop, is_running.
StopBot ==
    /\ is_running
    /\ LET t == stop_tracking([ monitoring |-> monitoring,
                                funding_check |-> funding_check ])
       IN  monitoring' = t.monitoring /\ funding_check' = t.funding_check
    /\ running' = FALSE
    /\ connection_active' = FALSE
    /\ is_running' = FALSE
    /\ published' = << >>
    /\ last_op' = [ NoOp EXCEPT !.op = "stop" ]
    /\ UNCHANGED << strategy_type, price_grids, reversion_price, grid_levels,
                    order_book, balance, grid_orders_initialized, last_price,
                    next_id, restarts, tasks >>

\* PerpetualGridTradingBot.restart: _stop when running, start_tracking, and
\* strategy.restart, which runs the strategy again (with fresh locals of
\* _run_live_or_paper_trading) only when it was stopped.
StartBot ==
    /\ last_op.op # "init"
    /\ restarts < MaxRestarts
    /\ restarts' = restarts + 1
    /\ is_running' = TRUE
    /\ LET t0 == [ monitoring |-> monitoring, funding_check |-> funding_check ]
           t == start_tracking(IF is_running THEN stop_tracking(t0) ELSE t0)
       IN  monitoring' = t.monitoring /\ funding_check' = t.funding_check
    /\ running' = TRUE
    /\ IF is_running \/ ~running
       THEN /\ last_price' = 0
            /\ grid_orders_initialized' = FALSE
            /\ connection_active' = TRUE
       ELSE UNCHANGED << last_price, grid_orders_initialized, connection_active >>
    /\ published' = << >>
    /\ last_op' = [ NoOp EXCEPT !.op = "start" ]
    /\ UNCHANGED << strategy_type, price_grids, reversion_price, grid_levels,
                    order_book, balance, next_id, tasks >>

\* One iteration of the ticker loop of _subscribe_to_ticker_updates.
TickerLoop ==
    \E current_price \in SeqRange(price_grids) \cup { reversion_price } :
      \E market_outcome \in MarketOutcomes(current_price),
         outcome \in LimitOutcomes(current_price) :
          OnTickerUpdate(current_price, market_outcome, outcome)

\* One query task of _process_open_orders.
PollLoop ==
    \E id \in 1..(next_id - 1), raw_status \in RawStatuses \cup { DataFetchError } :
      \E filled \in Filled(raw_status) :
          QueryAndHandleOrder(id, raw_status, filled)

Next ==
    \/ Run
    \/ TickerLoop
    \/ PollLoop
    \/ StopBot
    \/ StartBot

Spec == Init /\ [][Next]_vars

\* The event loop keeps running the ticker loop and the poll loop while they
\* have work.
FairSpec == Spec /\ WF_vars(TickerLoop) /\ WF_vars(PollLoop)

(***************************************************************************)
(* pair_grid_levels on its own: any sequence of calls on the constructed   *)
(* grid.                                                                   *)
(***************************************************************************)
PairGridLevels(source, target, pairing_type) ==
    /\ grid_levels' = pair_grid_levels(grid_levels, source, target, pairing_type)
    /\ published' = << >>
    /\ last_op' = [ NoOp EXCEPT !.op = "pair", !.source = source, !.target = target,
                                !.pairing_type = pairing_type ]
    /\ UNCHANGED << strategy_type, price_grids, reversion_price, order_book, balance,
                    is_running, running, monitoring, funding_check, tasks,
                    grid_orders_initialized, last_price, connection_active,
                    next_id, restarts >>

NextPair ==
    \E source \in Levels, target \in Levels, pairing_type \in { "buy", "sell", "both" } :
        PairGridLevels(source, target, pairing_type)

SpecPair == Init /\ [][NextPair]_vars


(***************************************************************************)
(* The tracker's tasks on the event loop, one step of a task at a time,    *)
(* from the state after run and the tick that seeded the grid.  _stop and  *)
(* restart call stop_tracking and start_tracking one after the other.      *)
(***************************************************************************)
InitTracker ==
    /\ strategy_type \in { SIMPLE_GRID, HEDGED_GRID }
    /\ \E spacing_type \in SpacingTypes, leverage \in Leverages :
           price_grids = calculate_price_grids(spacing_type, leverage)
    /\ reversion_price = config_reversion_price
    /\ \E current_price \in SeqRange(price_grids) :
         LET m0 == [ gl |-> initial_grid_levels(strategy_type, price_grids,
                                                reversion_price),
                     book |-> EmptyOrderBook, nid |-> 1 ]
             m1 == perform_initial_purchase(m0, current_price, CLOSED)
             m2 == initialize_grid_orders(strategy_type, m1, current_price,
                                          [ l \in Levels |-> "ok" ])
         IN  /\ current_price < reversion_price
             /\ grid_levels = m2.gl
             /\ order_book = m2.book
             /\ next_id = m2.nid
             /\ last_price = current_price
             /\ last_op = [ NoOp EXCEPT !.op = "tick", !.price = current_price ]
    /\ balance = setup_balances(InitialBalance)
    /\ is_running = TRUE
    /\ running = TRUE
    /\ monitoring = TRUE
    /\ funding_check = TRUE
    /\ tasks = start_tracking_tasks(NoTasks)
    /\ grid_orders_initialized = TRUE
    /\ connection_active = TRUE
    /\ restarts = 0
    /\ published = << >>

\* The tracker's tasks become t.
SetTasks(t) ==
    /\ tasks' = t
    /\ monitoring' = Running(t.mon)
    /\ funding_check' = Running(t.fund)

\* What no step of the tracker's tasks touches.
TrackerFrame ==
    UNCHANGED << strategy_type, price_grids, reversion_price, grid_levels,
                 is_running, running, grid_orders_initialized, last_price,
                 connection_active, next_id, restarts >>

\* PerpetualEvents.FUNDING_FEE as _check_funding_rate publishes it.
FUNDING_FEE == "funding_fee"

\* The monitoring task runs, from its creation or from its sleep, up to the
\* gather of _process_open_orders: one query task for each open order.  A
\* cancelled task ends instead (its handler finds the registry empty).
TrackOpenOrderStatuses ==
    /\ tasks.mon \in { "new", "sleep" }
    /\ LET open_orders == SeqRange(get_open_orders(order_book))
       IN  SetTasks(IF tasks.cancel_mon
                    THEN [ tasks EXCEPT !.mon = "done", !.cancel_mon = FALSE ]
                    ELSE IF open_orders = {}
                    THEN [ tasks EXCEPT !.mon = "sleep" ]
                    ELSE [ tasks EXCEPT !.mon = "gather", !.registry = open_orders ])
    /\ published' = << >>
    /\ last_op' = [ NoOp EXCEPT !.op = "monitor" ]
    /\ UNCHANGED << order_book, balance >>
    /\ TrackerFrame

\* A query task in flight runs: get_order has answered and the task handles
\* the answer, then leaves the registry.
QueryTask(id, raw_status, filled) ==
    /\ id \in tasks.registry \ tasks.cancel_child
    /\ HandleQueriedOrder(id, raw_status, filled)
    /\ SetTasks([ tasks EXCEPT !.registry = @ \ { id } ])

\* A query task on which cancel() was called runs: CancelledError ends it.
QueryTaskCancelled(id) ==
    /\ id \in tasks.registry \cap tasks.cancel_child
    /\ SetTasks([ tasks EXCEPT !.registry = @ \ { id }, !.cancel_child = @ \ { id },
                               !.cancelled = @ \cup { id } ])
    /\ published' = << >>
    /\ last_op' = [ NoOp EXCEPT !.op = "cancelled", !.identifier = id ]
    /\ UNCHANGED << order_book, balance >>
    /\ TrackerFrame

\* The gather of the monitoring task is done: the task goes to sleep, or ends
\* when it was cancelled (its handler finds the registry empty).
ProcessOpenOrdersDone ==
    /\ tasks.mon = "gather"
    /\ tasks.registry = {}
    /\ SetTasks(IF tasks.cancel_mon
                THEN [ tasks EXCEPT !.mon = "done", !.cancel_mon = FALSE ]
                ELSE [ tasks EXCEPT !.mon = "sleep" ])
    /\ published' = << >>
    /\ last_op' = [ NoOp EXCEPT !.op = "monitor" ]
    /\ UNCHANGED << order_book, balance >>
    /\ TrackerFrame

\* The funding task runs, from its creation or from its sleep, up to
\* get_funding_rate; a cancelled task ends instead.
CheckFundingRate ==
    /\ tasks.fund \in { "new", "sleep" }
    /\ SetTasks(IF tasks.cancel_fund
                THEN [ tasks EXCEPT !.fund = "done", !.cancel_fund = FALSE ]
                ELSE [ tasks EXCEPT !.fund = "fetch" ])
    /\ published' = << >>
    /\ last_op' = [ NoOp EXCEPT !.op = "funding" ]
    /\ UNCHANGED << order_book, balance >>
    /\ TrackerFrame

\* get_funding_rate has answered, with a rate or with an error: the funding
\* task publishes the rate and goes to sleep; a cancelled task ends instead.
\* Nothing subscribes to this event.
FundingRateFetched(answer) ==
    /\ tasks.fund = "fetch"
    /\ SetTasks(IF tasks.cancel_fund
                THEN [ tasks EXCEPT !.fund = "done", !.cancel_fund = FALSE ]
                ELSE [ tasks EXCEPT !.fund = "sleep" ])
    /\ published' = IF ~tasks.cancel_fund /\ answer # DataFetchError
                    THEN << [ kind |-> FUNDING_FEE, identifier |-> 0,
                              status |-> NoStatus, book_status |-> NoStatus ] >>
                    ELSE << >>
    /\ last_op' = [ NoOp EXCEPT !.op = "funding", !.raw_status = answer ]
    /\ UNCHANGED << order_book, balance >>
    /\ TrackerFrame

\* stop_tracking runs from its call, or from an await whose task is done, to
\* its next await or to its return.
StopTracking ==
    /\ \/ tasks.stop = "idle"
          /\ SetTasks(stop_tracking_monitoring_task(tasks))
       \/ tasks.stop = "await_mon" /\ tasks.mon = "done"
          /\ SetTasks(stop_tracking_funding_task([ tasks EXCEPT !.mon = "none" ]))
       \/ tasks.stop = "await_fund" /\ tasks.fund = "done"
          /\ SetTasks(stop_tracking_active_tasks([ tasks EXCEPT !.fund = "none" ]))
       \/ tasks.stop = "await_children" /\ tasks.registry = {}
          /\ SetTasks([ tasks EXCEPT !.stop = "idle", !.stopped = TRUE ])
    /\ published' = << >>
    /\ last_op' = [ NoOp EXCEPT !.op = "stop_tracking" ]
    /\ UNCHANGED << order_book, balance >>
    /\ TrackerFrame

\* start_tracking, called when no stop_tracking is under way.
StartTracking ==
    /\ tasks.stop = "idle"
    /\ SetTasks(start_tracking_tasks(tasks))
    /\ published' = << >>
    /\ last_op' = [ NoOp EXCEPT !.op = "start_tracking" ]
    /\ UNCHANGED << order_book, balance >>
    /\ TrackerFrame

NextTracker ==
    \/ TrackOpenOrderStatuses
    \/ \E id \in 1..(next_id - 1), raw_status \in RawStatuses \cup { DataFetchError } :
         \E filled \in Filled(raw_status) :
             QueryTask(id, raw_status, filled)
    \/ \E id \in 1..(next_id - 1) : QueryTaskCancelled(id)
    \/ ProcessOpenOrdersDone
    \/ CheckFundingRate
    \/ \E answer \in { "rate", DataFetchError } : FundingRateFetched(answer)
    \/ StopTracking
    \/ StartTracking

SpecTracker == InitTracker /\ [][NextTracker]_vars

\* Poll loops that may end by an unexpected error.
MaxOrphans == 1

\* The monitoring task runs and its body raises an exception that is not a
\* cancellation: the handler of _track_open_order_statuses logs it and the
\* task ends; the funding task is left as it is.
UnexpectedError ==
    /\ tasks.mon \in { "new", "sleep" }
    /\ ~tasks.cancel_mon
    /\ tasks.stop = "idle"
    /\ tasks.orphans < MaxOrphans
    /\ SetTasks([ tasks EXCEPT !.mon = "done" ])
    /\ published' = << >>
    /\ last_op' = [ NoOp EXCEPT !.op = "unexpected_error" ]
    /\ UNCHANGED << order_book, balance >>
    /\ TrackerFrame

NextTrackerError ==
    \/ NextTracker
    \/ UnexpectedError

SpecTrackerError == InitTracker /\ [][NextTrackerError]_vars


(***************************************************************************)
(* initialize_grid_orders on its own: one call on the grid as constructed, *)
(* for a grid of two levels, a small and a large grid, at any grid price   *)
(* below the reversion price and with any answer of the venue for each     *)
(* level.                                                                  *)
(***************************************************************************)

InitSeed ==
    /\ strategy_type \in { SIMPLE_GRID, HEDGED_GRID }
    /\ \E n \in { 2, NumGrids, LargeGrids }, spacing_type \in SpacingTypes, leverage \in Leverages :
         /\ price_grids = price_grids_for(n, spacing_type, leverage)
         /\ reversion_price = reversion_price_for(n)
    /\ grid_levels = initial_grid_levels(strategy_type, price_grids, reversion_price)
    /\ order_book = EmptyOrderBook
    /\ balance = setup_balances(InitialBalance)
    /\ is_running = TRUE
    /\ running = TRUE
    /\ monitoring = TRUE
    /\ funding_check = TRUE
    /\ tasks = NoTasks
    /\ grid_orders_initialized = FALSE
    /\ last_price = 0
    /\ connection_active = TRUE
    /\ next_id = 1
    /\ restarts = 0
    /\ published = << >>
    /\ last_op = NoOp

\* initialize_grid_orders(current_price), as _initialize_grid_orders_once calls
\* it.  outcome is what execute_limit_order does for each level: every kind of
\* answer on the small grid; on the large one it returns an order or raises
\* OrderExecutionFailedError.
InitializeGridOrders(current_price, outcome) ==
    /\ last_op.op = "init"
    /\ current_price < reversion_price
    /\ LET m0 == [ gl |-> grid_levels, book |-> order_book, nid |-> next_id ]
           m1 == initialize_grid_orders(strategy_type, m0, current_price, outcome)
       IN  /\ grid_levels' = m1.gl
           /\ order_book' = m1.book
           /\ next_id' = m1.nid
    /\ grid_orders_initialized' = TRUE
    /\ published' = << >>
    /\ last_op' = [ NoOp EXCEPT !.op = "seed", !.price = current_price,
                                !.outcome = outcome ]
    /\ UNCHANGED << strategy_type, price_grids, reversion_price, balance,
                    is_running, running, monitoring, funding_check, tasks,
                    last_price, connection_active, restarts >>

NextSeed ==
    \E current_price \in SeqRange(price_grids) :
      \E outcome \in IF Len(price_grids) <= NumGrids
                      THEN [ Levels -> { "ok", "None", OrderExecutionFailedError,
                                         "Exception" } ]
                      ELSE [ Levels -> { "ok", OrderExecutionFailedError } ] :
          InitializeGridOrders(current_price, outcome)

SpecSeed == InitSeed /\ [][NextSeed]_vars


(***************************************************************************)
(* The balance tracker on its own: any sequence of ORDER_FILLED and        *)
(* FUNDING_FEE_CHARGED events delivered to it after setup_balances.  Each  *)
(* fill is of a new order, at a grid price.                                *)
(***************************************************************************)
InitBalance ==
    /\ strategy_type = HEDGED_GRID
    /\ price_grids = calculate_price_grids(GEOMETRIC, 1)
    /\ reversion_price = config_reversion_price
    /\ grid_levels = initial_grid_levels(strategy_type, price_grids, reversion_price)
    /\ order_book = EmptyOrderBook
    /\ balance = setup_balances(InitialBalance)
    /\ is_running = TRUE
    /\ running = TRUE
    /\ monitoring = TRUE
    /\ funding_check = TRUE
    /\ tasks = NoTasks
    /\ grid_orders_initialized = FALSE
    /\ last_price = 0
    /\ connection_active = TRUE
    /\ next_id = 1
    /\ restarts = 0
    /\ published = << >>
    /\ last_op = NoOp

\* ORDER_FILLED(order) delivered to _update_balance_on_order_completion.
OrderFilled(side, filled, price) ==
    /\ next_id <= MaxFills
    /\ LET order == [ identifier |-> next_id, status |-> CLOSED, filled |-> filled,
                      side |-> side, price |-> price ]
       IN  balance' = update_balance_on_order_completion(balance, order)
    /\ next_id' = next_id + 1
    /\ published' = << >>
    /\ last_op' = [ NoOp EXCEPT !.op = "filled", !.identifier = next_id,
                                !.filled = filled, !.price = price, !.side = side ]
    /\ UNCHANGED << strategy_type, price_grids, reversion_price, grid_levels,
                    order_book, is_running, running, monitoring, funding_check,
                    tasks, grid_orders_initialized, last_price, connection_active,
                    restarts >>

\* FUNDING_FEE_CHARGED(fee_data) delivered to _handle_funding_fee.
FundingFeeCharged(amount) ==
    /\ balance.funding_fees + amount \in (-MaxFundingFees)..MaxFundingFees
    /\ balance' = handle_funding_fee(balance, amount)
    /\ published' = << >>
    /\ last_op' = [ NoOp EXCEPT !.op = "funding_fee", !.filled = amount ]
    /\ UNCHANGED next_id
    /\ UNCHANGED << strategy_type, price_grids, reversion_price, grid_levels,
                    order_book, is_running, running, monitoring, funding_check,
                    tasks, grid_orders_initialized, last_price, connection_active,
                    restarts >>

NextBalance ==
    \/ \E side \in { BUY_OPEN, SELL_OPEN }, filled \in 0..OrderAmount,
          price \in SeqRange(price_grids) :
           OrderFilled(side, filled, price)
    \/ \E amount \in { -1, 0, 1 } : FundingFeeCharged(amount)

SpecBalance == InitBalance /\ [][NextBalance]_vars


(***************************************************************************)
(* Margin reservation: orders whose margin reserve_margin_for_order has    *)
(* reserved, their fills and funding fees, for an account set up with a    *)
(* small margin.  Every order is for OrderAmount contracts at a grid price *)
(* and is filled whole at that price.                                      *)
(***************************************************************************)

InitMargin ==
    /\ strategy_type = HEDGED_GRID
    /\ price_grids = calculate_price_grids(GEOMETRIC, 1)
    /\ reversion_price = config_reversion_price
    /\ grid_levels = initial_grid_levels(strategy_type, price_grids, reversion_price)
    /\ order_book = EmptyOrderBook
    /\ \E initial_margin \in { 100, 200 } :
           balance = setup_balances_of(InitialBalance, initial_margin)
    /\ is_running = TRUE
    /\ running = TRUE
    /\ monitoring = TRUE
    /\ funding_check = TRUE
    /\ tasks = NoTasks
    /\ grid_orders_initialized = FALSE
    /\ last_price = 0
    /\ connection_active = TRUE
    /\ next_id = 1
    /\ restarts = 0
    /\ published = << >>
    /\ last_op = NoOp

\* reserve_margin_for_order(OrderAmount, price) for a new order of a side; when
\* it does not raise, the order is placed and enters the book.
ReserveMarginForOrder(side, price) ==
    /\ next_id <= MaxFills
    /\ balance' = reserve_margin_for_order(balance, OrderAmount, price)
    /\ IF reserve_margin_raises(balance, OrderAmount, price)
       THEN /\ UNCHANGED << order_book, next_id >>
            /\ last_op' = [ NoOp EXCEPT !.op = "reserve", !.price = price,
                                        !.raw_status = InsufficientMarginError ]
       ELSE /\ order_book' = add_order(order_book,
                                PerpetualOrder(next_id, OPEN, LIMIT, side, price), 0)
            /\ next_id' = next_id + 1
            /\ last_op' = [ NoOp EXCEPT !.op = "reserve", !.price = price,
                                        !.identifier = next_id ]
    /\ published' = << >>
    /\ UNCHANGED << strategy_type, price_grids, reversion_price, grid_levels,
                    is_running, running, monitoring, funding_check, tasks,
                    grid_orders_initialized, last_price, connection_active,
                    restarts >>

\* ORDER_FILLED for an open order whose margin was reserved: the book holds it
\* as CLOSED and the balance tracker handles the fill.
ReservedOrderFilled(id) ==
    /\ id \in SeqRange(get_open_orders(order_book))
    /\ LET local_order == order_book.orders[id]
           order == [ identifier |-> id, status |-> CLOSED, filled |-> OrderAmount,
                      side |-> local_order.side, price |-> local_order.price ]
       IN  /\ order_book' = update_order_status(order_book, id, CLOSED)
           /\ balance' = update_balance_on_order_completion(balance, order)
           /\ last_op' = [ NoOp EXCEPT !.op = "filled", !.identifier = id,
                                       !.filled = OrderAmount,
                                       !.price = local_order.price ]
    /\ published' = << >>
    /\ UNCHANGED next_id
    /\ UNCHANGED << strategy_type, price_grids, reversion_price, grid_levels,
                    is_running, running, monitoring, funding_check, tasks,
                    grid_orders_initialized, last_price, connection_active,
                    restarts >>

NextMargin ==
    \/ \E side \in { BUY_OPEN, SELL_OPEN }, price \in SeqRange(price_grids) :
           ReserveMarginForOrder(side, price)
    \/ \E id \in 1..(next_id - 1) : ReservedOrderFilled(id)
    \/ \E amount \in { -1, 0, 1 } : FundingFeeCharged(amount)

SpecMargin == InitMargin /\ [][NextMargin]_vars


(***************************************************************************)
(* The grid manager driven directly: from the grid as constructed, any     *)
(* sequence of pair_grid_levels, mark_order_pending, complete_order,       *)
(* can_place_order and get_paired_sell_level calls.  A side is passed by   *)
(* the name of the PerpetualOrderSide attribute; the call receives the     *)
(* member that name denotes.                                               *)
(***************************************************************************)
SideNames == { "BUY_OPEN", "SELL_CLOSE", "SELL_OPEN", "BUY_CLOSE" }

\* PerpetualOrderSide.<name>
side_of(name) ==
    CASE name = "BUY_OPEN" -> BUY_OPEN
      [] name = "SELL_CLOSE" -> SELL_CLOSE
      [] name = "SELL_OPEN" -> SELL_OPEN
      [] name = "BUY_CLOSE" -> BUY_CLOSE

GridFrame ==
    UNCHANGED << strategy_type, price_grids, reversion_price, order_book, balance,
                 is_running, running, monitoring, funding_check, tasks,
                 grid_orders_initialized, last_price, connection_active, restarts >>

CanPlaceOrder(level, name) ==
    /\ last_op' = [ NoOp EXCEPT !.op = "can_place", !.source = level, !.side = name,
                      !.allowed = can_place_order(strategy_type,
                                                  grid_levels[level].state,
                                                  side_of(name)) ]
    /\ published' = << >>
    /\ UNCHANGED << grid_levels, next_id >>
    /\ GridFrame

GetPairedSellLevel(buy_level) ==
    /\ last_op' = [ NoOp EXCEPT !.op = "paired_sell", !.source = buy_level,
                      !.target = get_paired_sell_level(strategy_type, grid_levels,
                                                       buy_level) ]
    /\ published' = << >>
    /\ UNCHANGED << grid_levels, next_id >>
    /\ GridFrame

MarkOrderPending(level, name) ==
    /\ next_id <= MaxPending
    /\ grid_levels' = mark_order_pending(grid_levels, level, next_id, side_of(name))
    /\ next_id' = next_id + 1
    /\ last_op' = [ NoOp EXCEPT !.op = "pending", !.source = level, !.side = name ]
    /\ published' = << >>
    /\ GridFrame

CompleteOrder(level, name) ==
    /\ grid_levels' = complete_order(strategy_type, grid_levels, level, side_of(name))
    /\ last_op' = [ NoOp EXCEPT !.op = "complete", !.source = level, !.side = name ]
    /\ published' = << >>
    /\ UNCHANGED next_id
    /\ GridFrame

NextGrid ==
    \/ \E source \in Levels : \E target \in { l \in Levels : source < l } :
           PairGridLevels(source, target, "sell")
    \/ \E level \in Levels, name \in SideNames : CanPlaceOrder(level, name)
    \/ \E buy_level \in Levels : GetPairedSellLevel(buy_level)
    \/ \E level \in Levels, name \in SideNames : MarkOrderPending(level, name)
    \/ \E level \in Levels, name \in SideNames : CompleteOrder(level, name)

SpecGrid == Init /\ [][NextGrid]_vars


(***************************************************************************)
(* PerpetualOrderValidator on its own: one call of                         *)
(* adjust_and_validate_open_long or adjust_and_validate_open_short on any  *)
(* margin, quantity, price and leverage.  Money is counted in units of the *)
(* validator's tolerance (1e-6) and quantities in units of its             *)
(* min_contract_size (0.001); a price is money units per quantity unit.  A *)
(* quantity is the exact fraction num / den with den > 0, and every        *)
(* comparison of the code is made on cross-multiplied integers, so no      *)
(* division rounds.                                                        *)
(***************************************************************************)
tolerance == 1
min_contract_size == 1
\* threshold_ratio = 0.5 and maintenance_margin_rate = 0.005, as fractions.
threshold_ratio_num == 1
threshold_ratio_den == 2
maintenance_margin_rate_num == 5
maintenance_margin_rate_den == 1000

Raised(error) == [ raises |-> error, quantity |-> [ num |-> 0, den |-> 1 ] ]
Returned(quantity) == [ raises |-> "None", quantity |-> quantity ]

\* _validate_contract_quantity: the error raised, "None" when it returns.
validate_contract_quantity(quantity) ==
    IF quantity.num <= 0 THEN "InvalidContractQuantityError"
    ELSE IF quantity.num < min_contract_size * quantity.den
    THEN "InvalidContractQuantityError"
    ELSE "None"

\* _check_margin_ratio: margin_balance / (order_quantity * price / leverage)
\* against maintenance_margin_rate; the division fails on a position value of 0.
check_margin_ratio(margin_balance, quantity, price, leverage) ==
    IF quantity.num * price = 0 THEN "ZeroDivisionError"
    ELSE IF margin_balance * leverage * quantity.den * maintenance_margin_rate_den
              < maintenance_margin_rate_num * quantity.num * price
    THEN "MarginRatioError"
    ELSE "None"

\* A faulty adjust_and_validate_open_long that never reduces the quantity.
adjust_and_validate_unadjusted(margin_balance, order_quantity, price, leverage) ==
    IF threshold_ratio_den * margin_balance * leverage
         < threshold_ratio_num * order_quantity * price
    THEN Raised(InsufficientMarginError)
    ELSE Returned([ num |-> order_quantity, den |-> 1 ])

\* adjust_and_validate_open_long.  required_margin = order_quantity * price /
\* leverage; the adjusted quantity is (margin_balance - tolerance) * leverage /
\* price, or 0 when that is negative.
adjust_and_validate_open_long(margin_balance, order_quantity, price, leverage) ==
    IF threshold_ratio_den * margin_balance * leverage
         < threshold_ratio_num * order_quantity * price
    THEN Raised(InsufficientMarginError)
    ELSE LET short_of_margin == order_quantity * price > margin_balance * leverage
             room == (margin_balance - tolerance) * leverage
             adjusted_quantity ==
                 IF short_of_margin
                 THEN [ num |-> IF room > 0 THEN room ELSE 0, den |-> price ]
                 ELSE [ num |-> order_quantity, den |-> 1 ]
         IN  IF /\ short_of_margin
                /\ \/ adjusted_quantity.num <= 0
                   \/ adjusted_quantity.num * price
                        < tolerance * leverage * adjusted_quantity.den
             THEN Raised(InsufficientMarginError)
             ELSE IF validate_contract_quantity(adjusted_quantity) # "None"
             THEN Raised(validate_contract_quantity(adjusted_quantity))
             ELSE IF check_margin_ratio(margin_balance, adjusted_quantity, price,
                                        leverage) # "None"
             THEN Raised(check_margin_ratio(margin_balance, adjusted_quantity, price,
                                            leverage))
             ELSE Returned(adjusted_quantity)

\* adjust_and_validate_open_short: the same statements as for a long.
adjust_and_validate_open_short(margin_balance, order_quantity, price, leverage) ==
    IF threshold_ratio_den * margin_balance * leverage
         < threshold_ratio_num * order_quantity * price
    THEN Raised(InsufficientMarginError)
    ELSE LET short_of_margin == order_quantity * price > margin_balance * leverage
             room == (margin_balance - tolerance) * leverage
             adjusted_quantity ==
                 IF short_of_margin
                 THEN [ num |-> IF room > 0 THEN room ELSE 0, den |-> price ]
                 ELSE [ num |-> order_quantity, den |-> 1 ]
         IN  IF /\ short_of_margin
                /\ \/ adjusted_quantity.num <= 0
                   \/ adjusted_quantity.num * price
                        < tolerance * leverage * adjusted_quantity.den
             THEN Raised(InsufficientMarginError)
             ELSE IF validate_contract_quantity(adjusted_quantity) # "None"
             THEN Raised(validate_contract_quantity(adjusted_quantity))
             ELSE IF check_margin_ratio(margin_balance, adjusted_quantity, price,
                                        leverage) # "None"
             THEN Raised(check_margin_ratio(margin_balance, adjusted_quantity, price,
                                            leverage))
             ELSE Returned(adjusted_quantity)

InitValidator ==
    /\ strategy_type = HEDGED_GRID
    /\ price_grids = calculate_price_grids(GEOMETRIC, 1)
    /\ reversion_price = config_reversion_price
    /\ grid_levels = initial_grid_levels(strategy_type, price_grids, reversion_price)
    /\ order_book = EmptyOrderBook
    /\ balance = setup_balances(InitialBalance)
    /\ is_running = TRUE
    /\ running = TRUE
    /\ monitoring = TRUE
    /\ funding_check = TRUE
    /\ tasks = NoTasks
    /\ grid_orders_initialized = FALSE
    /\ last_price = 0
    /\ connection_active = TRUE
    /\ next_id = 1
    /\ restarts = 0
    /\ published = << >>
    /\ last_op \in [ op : { "call" }, method : { "open_long", "open_short" },
                    margin_balance : (-1)..MaxMargin,
                    order_quantity : 0..MaxQuantity, price : 0..MaxPrice,
                    leverage : Leverages,
                    result : { Returned([ num |-> 0, den |-> 1 ]) } ]

AdjustAndValidateOpenLong ==
    /\ last_op.op = "call"
    /\ last_op.method = "open_long"
    /\ last_op' = [ last_op EXCEPT
                      !.op = "done",
                      !.result = adjust_and_validate_open_long(
                                     last_op.margin_balance, last_op.order_quantity,
                                     last_op.price, last_op.leverage) ]
    /\ UNCHANGED << strategy_type, price_grids, reversion_price, grid_levels,
                    order_book, balance, is_running, running, monitoring,
                    funding_check, tasks, grid_orders_initialized, last_price,
                    connection_active, next_id, restarts, published >>

AdjustAndValidateOpenShort ==
    /\ last_op.op = "call"
    /\ last_op.method = "open_short"
    /\ last_op' = [ last_op EXCEPT
                      !.op = "done",
                      !.result = adjust_and_validate_open_short(
                                     last_op.margin_balance, last_op.order_quantity,
                                     last_op.price, last_op.leverage) ]
    /\ UNCHANGED << strategy_type, price_grids, reversion_price, grid_levels,
                    order_book, balance, is_running, running, monitoring,
                    funding_check, tasks, grid_orders_initialized, last_price,
                    connection_active, next_id, restarts, published >>

NextValidator ==
    \/ AdjustAndValidateOpenLong
    \/ AdjustAndValidateOpenShort

SpecValidator == InitValidator /\ [][NextValidator]_vars


(***************************************************************************)
(* The order book driven directly: add_order calls for orders of any side  *)
(* name and type, with or without a grid level.                            *)
(***************************************************************************)
AddOrder(name, order_type, grid_level) ==
    /\ next_id <= MaxOrders
    /\ order_book' = add_order(order_book,
                               PerpetualOrder(next_id, OPEN, order_type,
                                              side_of(name), reversion_price),
                               grid_level)
    /\ next_id' = next_id + 1
    /\ last_op' = [ NoOp EXCEPT !.op = "add_order", !.identifier = next_id,
                                !.side = name, !.target = grid_level ]
    /\ published' = << >>
    /\ UNCHANGED << strategy_type, price_grids, reversion_price, grid_levels,
                    balance, is_running, running, monitoring, funding_check, tasks,
                    grid_orders_initialized, last_price, connection_active,
                    restarts >>

NextBook ==
    \E name \in SideNames, order_type \in PerpetualOrderType,
       grid_level \in { 0 } \cup Levels :
        AddOrder(name, order_type, grid_level)

SpecBook == InitBalance /\ [][NextBook]_vars


(***************************************************************************)
(* The ticker loops of _subscribe_to_ticker_updates on the event loop, one *)
(* step of a loop at a time (from one await to the next), with STOP_BOT    *)
(* and START_BOT handled in between.  The first loop is the one that       *)
(* PerpetualGridTradingBot.run awaits; a later one is awaited by restart.  *)
(***************************************************************************)

\* max_retries of _subscribe_to_ticker_updates.
max_retries == 5

\* Consecutive failed attempts of one loop that are followed.
MaxFailures == 6

\* retry_interval of _subscribe_to_ticker_updates, in seconds.
retry_interval(retry_count) == Min(retry_count * 5, 60)

\* A loop that has entered `while self.connection_active` and awaits
\* watch_ticker.  pc is the await the loop stands at, cancel says cancel() was
\* called on its task and not delivered yet, closed that the loop has awaited
\* exchange.close(), delay is the sleep it waits for; failures counts the
\* attempts that failed since the last tick.
NewLoop ==
    [ pc |-> "watch", retry_count |-> 0, failures |-> 0, cancel |-> FALSE,
      closed |-> FALSE, delay |-> 0 ]

\* The finally clause and what follows it: a loop that finds connection_active
\* false awaits exchange.close(); else it leaves (by an exception that
\* propagates) or evaluates the loop condition, which holds.
ticker_finally(loop, active, leaving) ==
    [ loop EXCEPT !.cancel = FALSE,
                  !.pc = IF ~active
                         THEN IF leaving THEN "closing_break" ELSE "closing_loop"
                         ELSE IF leaving THEN "exited" ELSE "watch" ]

InitTicker ==
    /\ strategy_type = HEDGED_GRID
    /\ price_grids = calculate_price_grids(GEOMETRIC, 1)
    /\ reversion_price = config_reversion_price
    /\ grid_levels = initial_grid_levels(strategy_type, price_grids, reversion_price)
    /\ order_book = EmptyOrderBook
    /\ balance = setup_balances(InitialBalance)
    /\ is_running = TRUE
    /\ running = TRUE
    /\ monitoring = TRUE
    /\ funding_check = TRUE
    /\ tasks = [ ticker |-> << NewLoop >> ]
    /\ grid_orders_initialized = FALSE
    /\ last_price = 0
    /\ connection_active = TRUE
    /\ next_id = 1
    /\ restarts = 0
    /\ published = << >>
    /\ last_op = NoOp

\* Loop i becomes loop; when the first loop has exited, strategy.run returns
\* (or raises) into PerpetualGridTradingBot.run, whose finally clause clears
\* is_running.
SetLoop(i, loop, raw_status, delivered) ==
    /\ tasks' = [ tasks EXCEPT !.ticker[i] = loop ]
    /\ is_running' = IF i = 1 /\ loop.pc = "exited" THEN FALSE ELSE is_running
    /\ published' = << >>
    /\ last_op' = [ NoOp EXCEPT !.op = "ticker", !.identifier = i,
                                !.raw_status = raw_status, !.allowed = delivered ]
    /\ UNCHANGED << strategy_type, price_grids, reversion_price, grid_levels,
                    order_book, balance, running, monitoring, funding_check,
                    grid_orders_initialized, last_price, next_id, restarts >>

\* watch_ticker of loop i has answered, with a ticker, with a NetworkError or
\* ExchangeError, or with another exception; or the loop was cancelled while
\* it waited.
WatchTicker(i, answer) ==
    LET loop == tasks.ticker[i]
        retry_count == loop.retry_count + 1
    IN  /\ loop.pc = "watch"
        /\ answer # "tick" => loop.failures < MaxFailures
        /\ IF loop.cancel
           THEN /\ connection_active' = FALSE
                /\ SetLoop(i, ticker_finally(loop, FALSE, TRUE), "CancelledError",
                           FALSE)
           ELSE IF answer = "tick"
           THEN /\ UNCHANGED connection_active
                /\ IF ~connection_active
                   THEN SetLoop(i, ticker_finally(loop, FALSE, TRUE), answer, FALSE)
                   ELSE SetLoop(i, [ loop EXCEPT !.pc = "tick_sleep",
                                                 !.failures = 0, !.delay = 3 ],
                                answer, running)
           ELSE IF answer = "NetworkError"
           THEN IF retry_count >= max_retries
                THEN /\ connection_active' = FALSE
                     /\ SetLoop(i, ticker_finally(
                                       [ loop EXCEPT !.retry_count = retry_count,
                                                     !.failures = @ + 1 ],
                                       FALSE, TRUE), answer, FALSE)
                ELSE /\ UNCHANGED connection_active
                     /\ SetLoop(i, [ loop EXCEPT
                                       !.pc = "backoff",
                                       !.retry_count = retry_count,
                                       !.failures = @ + 1,
                                       !.delay = retry_interval(retry_count) ],
                                answer, FALSE)
           ELSE /\ UNCHANGED connection_active
                /\ SetLoop(i, [ loop EXCEPT !.pc = "error_sleep", !.failures = @ + 1,
                                            !.delay = 5 ],
                           answer, FALSE)

\* The sleep of loop i is over, or the loop was cancelled while it slept.  The
\* sleep after a tick is inside the try block, whose CancelledError handler
\* clears connection_active; the two other sleeps are inside exception
\* handlers, so a CancelledError raised there propagates through the finally
\* clause.
SleepDone(i) ==
    LET loop == tasks.ticker[i]
    IN  /\ loop.pc \in { "tick_sleep", "backoff", "error_sleep" }
        /\ IF loop.pc = "tick_sleep"
           THEN IF loop.cancel
                THEN /\ connection_active' = FALSE
                     /\ SetLoop(i, ticker_finally(loop, FALSE, TRUE),
                                "CancelledError", FALSE)
                ELSE /\ UNCHANGED connection_active
                     /\ SetLoop(i, ticker_finally([ loop EXCEPT !.retry_count = 0 ],
                                                  connection_active, FALSE),
                                "sleep", FALSE)
           ELSE /\ UNCHANGED connection_active
                /\ SetLoop(i, ticker_finally(loop, connection_active, loop.cancel),
                           IF loop.cancel THEN "CancelledError" ELSE "sleep", FALSE)

\* exchange.close() of loop i has returned (its errors are logged): the loop
\* leaves when it came by a break or an exception, else it evaluates the loop
\* condition.
CloseDone(i) ==
    LET loop == tasks.ticker[i]
    IN  /\ loop.pc \in { "closing_break", "closing_loop" }
        /\ UNCHANGED connection_active
        /\ SetLoop(i, [ loop EXCEPT
                          !.closed = TRUE,
                          !.pc = IF loop.pc = "closing_loop" /\ connection_active
                                 THEN "watch" ELSE "exited" ],
                   "close", FALSE)

\* cancel() is called on the task that awaits loop i in watch_ticker or in a
\* sleep.
CancelTicker(i) ==
    LET loop == tasks.ticker[i]
    IN  /\ loop.pc \in { "watch", "tick_sleep", "backoff", "error_sleep" }
        /\ ~loop.cancel
        /\ UNCHANGED connection_active
        /\ SetLoop(i, [ loop EXCEPT !.cancel = TRUE ], "cancel", FALSE)

\* _handle_start_bot_event: PerpetualGridTradingBot.restart, up to the first
\* await of the new ticker loop.  strategy.restart runs the strategy again
\* only when it was stopped; _subscribe_to_ticker_updates then sets
\* connection_active and enters a new loop.
HandleStartBotEvent ==
    /\ restarts < MaxRestarts
    /\ restarts' = restarts + 1
    /\ is_running' = TRUE
    /\ LET t0 == [ monitoring |-> monitoring, funding_check |-> funding_check ]
           t == start_tracking(IF is_running THEN stop_tracking(t0) ELSE t0)
       IN  monitoring' = t.monitoring /\ funding_check' = t.funding_check
    /\ running' = TRUE
    /\ IF is_running \/ ~running
       THEN /\ connection_active' = TRUE
            /\ tasks' = [ tasks EXCEPT !.ticker = Append(@, NewLoop) ]
       ELSE UNCHANGED << connection_active, tasks >>
    /\ published' = << >>
    /\ last_op' = [ NoOp EXCEPT !.op = "start" ]
    /\ UNCHANGED << strategy_type, price_grids, reversion_price, grid_levels,
                    order_book, balance, grid_orders_initialized, last_price,
                    next_id >>

NextTicker ==
    \/ \E i \in 1..Len(tasks.ticker), answer \in { "tick", "NetworkError", "Exception" } :
           WatchTicker(i, answer)
    \/ \E i \in 1..Len(tasks.ticker) : SleepDone(i)
    \/ \E i \in 1..Len(tasks.ticker) : CloseDone(i)
    \/ \E i \in 1..Len(tasks.ticker) : CancelTicker(i)
    \/ StopBot
    \/ HandleStartBotEvent

SpecTicker == InitTicker /\ [][NextTicker]_vars


(***************************************************************************)
(* One call of the live execution strategy, execute_market_order or        *)
(* execute_limit_order, one step at a time (from one await to the next),   *)
(* for every side, amount and price and every answer of the venue.  tasks  *)
(* holds the call: pc is the await it stands at, attempt the value of the  *)
(* loop variable, placed the orders the venue has accepted for this call,  *)
(* error the exception raised to the caller.                               *)
(***************************************************************************)

\* max_retries of PerpetualLiveOrderExecutionStrategy.
execution_max_retries == 3

InitExec ==
    /\ strategy_type = HEDGED_GRID
    /\ price_grids = calculate_price_grids(GEOMETRIC, 1)
    /\ reversion_price = config_reversion_price
    /\ grid_levels = initial_grid_levels(strategy_type, price_grids, reversion_price)
    /\ order_book = EmptyOrderBook
    /\ balance = setup_balances(InitialBalance)
    /\ is_running = TRUE
    /\ running = TRUE
    /\ monitoring = TRUE
    /\ funding_check = TRUE
    /\ tasks \in [ order_type : { MARKET, LIMIT }, side : PerpetualOrderSide,
                   pair : { "pair" }, amount : 1..MaxQuantity, price : 1..MaxPrice,
                   pc : { "place" }, attempt : { 0 }, placed : { 0 },
                   error : { << >> } ]
    /\ grid_orders_initialized = FALSE
    /\ last_price = 0
    /\ connection_active = TRUE
    /\ next_id = 1
    /\ restarts = 0
    /\ published = << >>
    /\ last_op = NoOp

\* place_order has answered, with the raw order or with a DataFetchError.
\* execute_market_order goes on to poll the order, or logs the error and
\* sleeps retry_delay; execute_limit_order returns the parsed order, or raises
\* OrderExecutionFailedError at once.
PlaceOrder(answer) ==
    /\ tasks.pc = "place"
    /\ tasks' =
         IF answer = "ok"
         THEN [ tasks EXCEPT !.placed = @ + 1,
                             !.pc = IF tasks.order_type = MARKET THEN "poll_sleep"
                                    ELSE "returned" ]
         ELSE IF tasks.order_type = MARKET
         THEN [ tasks EXCEPT !.pc = "retry_sleep" ]
         ELSE [ tasks EXCEPT !.pc = "raised",
                             !.error = [ name |-> OrderExecutionFailedError,
                                         order_side |-> tasks.side,
                                         order_type |-> LIMIT,
                                         pair |-> tasks.pair,
                                         quantity |-> tasks.amount,
                                         price |-> tasks.price ] ]
    /\ next_id' = IF answer = "ok" THEN next_id + 1 ELSE next_id
    /\ published' = << >>
    /\ last_op' = [ NoOp EXCEPT !.op = "place", !.raw_status = answer,
                                !.identifier = IF answer = "ok" THEN next_id ELSE 0 ]
    /\ UNCHANGED << strategy_type, price_grids, reversion_price, grid_levels,
                    order_book, balance, is_running, running, monitoring,
                    funding_check, grid_orders_initialized, last_price,
                    connection_active, restarts >>

\* fetch_order of execute_market_order has answered: with status closed the
\* call returns the parsed order; with another status it sleeps and polls
\* again; a DataFetchError is caught by the handler of the attempt.
FetchOrder(answer) ==
    /\ tasks.pc = "fetch"
    /\ tasks' = [ tasks EXCEPT !.pc = IF answer = CLOSED THEN "returned"
                                      ELSE IF answer = OPEN THEN "poll_sleep"
                                      ELSE "retry_sleep" ]
    /\ published' = << >>
    /\ last_op' = [ NoOp EXCEPT !.op = "fetch", !.raw_status = answer ]
    /\ UNCHANGED << strategy_type, price_grids, reversion_price, grid_levels,
                    order_book, balance, is_running, running, monitoring,
                    funding_check, grid_orders_initialized, last_price,
                    connection_active, next_id, restarts >>

\* A sleep of execute_market_order is over: the 0.5 s before fetch_order, or
\* retry_delay at the end of a failed attempt, after which the next attempt
\* places an order, or OrderExecutionFailedError is raised when the attempts
\* are used up.
ExecutionSleepDone ==
    /\ tasks.pc \in { "poll_sleep", "retry_sleep" }
    /\ tasks' =
         IF tasks.pc = "poll_sleep"
         THEN [ tasks EXCEPT !.pc = "fetch" ]
         ELSE IF tasks.attempt + 1 < execution_max_retries
         THEN [ tasks EXCEPT !.attempt = @ + 1, !.pc = "place" ]
         ELSE [ tasks EXCEPT !.attempt = @ + 1, !.pc = "raised",
                             !.error = [ name |-> OrderExecutionFailedError,
                                         order_side |-> tasks.side,
                                         order_type |-> MARKET,
                                         pair |-> tasks.pair,
                                         quantity |-> tasks.amount,
                                         price |-> tasks.price ] ]
    /\ published' = << >>
    /\ last_op' = [ NoOp EXCEPT !.op = "sleep" ]
    /\ UNCHANGED << strategy_type, price_grids, reversion_price, grid_levels,
                    order_book, balance, is_running, running, monitoring,
                    funding_check, grid_orders_initialized, last_price,
                    connection_active, next_id, restarts >>

NextExec ==
    \/ \E answer \in { "ok", DataFetchError } : PlaceOrder(answer)
    \/ \E answer \in { CLOSED, OPEN, DataFetchError } : FetchOrder(answer)
    \/ ExecutionSleepDone

SpecExec == InitExec /\ [][NextExec]_vars

\* The venue answers every request and every sleep ends.
FairSpecExec == SpecExec /\ WF_vars(NextExec)


(***************************************************************************)
(* Properties.                                                             *)
(***************************************************************************)

\* The orders of a level's history that the book holds with one of statuses.
OrdersOfLevel(l, statuses) ==
    { i \in 1..Len(grid_levels[l].orders) :
        order_book.orders[grid_levels[l].orders[i]].status \in statuses }

\* The step is the poll of the open order id, answered with raw_status.
PollStep(id, raw_status) ==
    /\ id \in DOMAIN order_book.orders
    /\ order_book.orders[id].status = OPEN
    /\ last_op'.op = "poll"
    /\ last_op'.identifier = id
    /\ last_op'.raw_status = raw_status

\* The last handler was the poll of a grid order with side and raw_status.
PolledGridOrder(side, raw_status) ==
    /\ last_op.op = "poll"
    /\ last_op.raw_status = raw_status
    /\ get_grid_level_for_order(order_book, last_op.identifier) # 0
    /\ order_book.orders[last_op.identifier].side = side

SellEligible == { READY_TO_SELL, READY_TO_BUY_OR_SELL }

\* ORDER_FILLED is on the bus for a BUY_OPEN limit order of level l, and the
\* paired sell level of l is p and can take a sell order.
FilledBuyWithPair(l, p) ==
    /\ l \in Levels /\ p \in Levels
    /\ published # << >>
    /\ published[1].kind = ORDER_FILLED
    /\ LET id == published[1].identifier
       IN  /\ order_book.orders[id].side = BUY_OPEN
           /\ order_book.orders[id].order_type = LIMIT
           /\ get_grid_level_for_order(order_book, id) = l
    /\ get_paired_sell_level(strategy_type, grid_levels, l) = p
    /\ grid_levels[p].state \in SellEligible

\* The book holds a SELL_CLOSE limit order recorded with level p, and p waits
\* for its fill.
SellPlacedAt(p) ==
    /\ p \in Levels
    /\ grid_levels[p].state = WAITING_FOR_SELL_FILL
    /\ \E id \in DOMAIN order_book.orders :
          /\ order_book.orders[id].side = SELL_CLOSE
          /\ order_book.orders[id].order_type = LIMIT
          /\ get_grid_level_for_order(order_book, id) = p

\* C1: whenever ORDER_FILLED is published for a BUY_OPEN limit order of a grid
\* level whose paired sell level exists and is eligible, a SELL_CLOSE limit
\* order is eventually placed at the paired level, recorded in the book with
\* that level, and the level becomes WAITING_FOR_SELL_FILL.  A run in which
\* the bot is stopped before that is not held against the property.
C1_FilledBuySchedulesSell ==
    \A l \in 1..NumGrids, p \in 1..NumGrids :
        FilledBuyWithPair(l, p) ~> (SellPlacedAt(p) \/ ~is_running)

OpenOrdersOfSide(l, side) ==
    { i \in OrdersOfLevel(l, {OPEN}) :
        order_book.orders[grid_levels[l].orders[i]].side = side }

\* C3: a grid level in WAITING_FOR_BUY_FILL or WAITING_FOR_SELL_FILL has
\* exactly one OPEN order of the matching side in its order history.
C3_WaitingLevelHasOneOpenOrder ==
    \A l \in Levels :
        /\ grid_levels[l].state = WAITING_FOR_BUY_FILL
              => Cardinality(OpenOrdersOfSide(l, BUY_OPEN)) = 1
        /\ grid_levels[l].state = WAITING_FOR_SELL_FILL
              => Cardinality(OpenOrdersOfSide(l, SELL_CLOSE)) = 1

\* C4: if a grid level is in WAITING_FOR_BUY_FILL then the most recent order
\* appended to it has side BUY_OPEN and status OPEN or CLOSED.
C4_WaitingBuyLastOrderOpenOrClosed ==
    \A l \in Levels :
        grid_levels[l].state = WAITING_FOR_BUY_FILL =>
            /\ grid_levels[l].orders # << >>
            /\ LET id == grid_levels[l].orders[Len(grid_levels[l].orders)]
               IN  /\ order_book.orders[id].side = BUY_OPEN
                   /\ order_book.orders[id].status \in { OPEN, CLOSED }

\* C5: when the poller has observed CLOSED for the BUY_OPEN order of a level in
\* WAITING_FOR_BUY_FILL, the level is READY_TO_SELL (SIMPLE_GRID) or
\* READY_TO_BUY_OR_SELL (HEDGED_GRID) as soon as that poll has been handled.
C5_ClosedBuyCompletesLevel ==
    [][ \A id \in DOMAIN order_book.orders :
          LET l == get_grid_level_for_order(order_book, id)
          IN  ( /\ PollStep(id, CLOSED)
                /\ order_book.orders[id].side = BUY_OPEN
                /\ l # 0
                /\ grid_levels[l].state = WAITING_FOR_BUY_FILL )
              => grid_levels'[l].state = IF strategy_type = SIMPLE_GRID
                                         THEN READY_TO_SELL
                                         ELSE READY_TO_BUY_OR_SELL ]_vars

\* C6: pairing is symmetric after any sequence of pair_grid_levels calls: for
\* all levels A and B, A.paired_sell_level = B iff B.paired_buy_level = A.
C6_PairingSymmetric ==
    \A a \in Levels, b \in Levels :
        grid_levels[a].paired_sell_level = b <=> grid_levels[b].paired_buy_level = a

\* C7: right after pair_grid_levels(A, B, "buy"), A.paired_buy_level = B and
\* B.paired_sell_level = A; after pair_grid_levels(A, B, "sell"),
\* A.paired_sell_level = B and B.paired_buy_level = A.
C7_PairSetsBothSides ==
    last_op.op = "pair" =>
        LET a == last_op.source
            b == last_op.target
        IN  /\ last_op.pairing_type = "buy" =>
                 /\ grid_levels[a].paired_buy_level = b
                 /\ grid_levels[b].paired_sell_level = a
            /\ last_op.pairing_type = "sell" =>
                 /\ grid_levels[a].paired_sell_level = b
                 /\ grid_levels[b].paired_buy_level = a

\* A level that was paired before has just been paired again, to another level.
C7_Witness ==
    /\ last_op.op = "pair"
    /\ last_op.pairing_type = "buy"
    /\ last_op.source # last_op.target
    /\ \E c \in Levels :
          /\ c # last_op.target
          /\ grid_levels[c].paired_sell_level = last_op.source

\* The event kind that belongs to a final status.
EventKindOf(status) ==
    IF status = CLOSED THEN ORDER_FILLED
    ELSE IF status = CANCELED THEN ORDER_CANCELLED
    ELSE IF status = ADL THEN ADL_TRIGGERED
    ELSE POSITION_UPDATE

\* C8: for a poll of an open order answered with s in {CLOSED, CANCELED,
\* LIQUIDATED, ADL, PARTIAL_CLOSE}, the tracker sets the book status to s and
\* then publishes exactly one event, of the kind that belongs to s; no order
\* is placed in that step, so LIQUIDATED yields neither ORDER_FILLED nor a
\* paired order.
C8_StatusThenOneEvent ==
    [][ \A id \in DOMAIN order_book.orders :
          \A s \in { CLOSED, CANCELED, LIQUIDATED, ADL, PARTIAL_CLOSE } :
            PollStep(id, s) =>
              /\ order_book'.orders[id].status = s
              /\ published' = << [ kind |-> EventKindOf(s), identifier |-> id,
                                   status |-> s, book_status |-> s ] >>
              /\ DOMAIN order_book'.orders = DOMAIN order_book.orders
              /\ grid_levels' = grid_levels ]_vars

\* The open order of a grid level was polled as LIQUIDATED.
C8_Witness ==
    /\ PolledGridOrder(BUY_OPEN, LIQUIDATED)
    /\ order_book.orders[last_op.identifier].status = LIQUIDATED
    /\ Len(published) = 1
    /\ published[1].kind = POSITION_UPDATE

\* C9: a poll answered with UNKNOWN leaves the order book as it was and
\* publishes no event.
C9_UnknownRejected ==
    [][ \A id \in DOMAIN order_book.orders :
          PollStep(id, UNKNOWN) =>
            /\ order_book' = order_book
            /\ published' = << >> ]_vars

\* The open order of a grid level was polled as UNKNOWN and is still open.
C9_Witness ==
    /\ PolledGridOrder(BUY_OPEN, UNKNOWN)
    /\ order_book.orders[last_op.identifier].status = OPEN
    /\ published = << >>

\* C10: a poll answered with OPEN and filled > 0 leaves the order book, the
\* grid levels and the balance tracker as they were, publishes nothing and
\* places no order.
C10_PartialFillChangesNothing ==
    [][ \A id \in DOMAIN order_book.orders :
          ( /\ PollStep(id, OPEN)
            /\ last_op'.filled > 0 )
          => /\ order_book' = order_book
             /\ grid_levels' = grid_levels
             /\ balance' = balance
             /\ published' = << >>
             /\ next_id' = next_id ]_vars

\* The open order of a grid level was polled as OPEN with a partial fill.
C10_Witness ==
    /\ PolledGridOrder(BUY_OPEN, OPEN)
    /\ last_op.filled > 0
    /\ order_book.orders[last_op.identifier].status = OPEN


Final == { CLOSED, CANCELED, LIQUIDATED, ADL, PARTIAL_CLOSE }

\* C11: once the book status of an order has left OPEN it never changes again,
\* and the order is never polled again.
C11_StatusMonotonic ==
    [][ \A id \in DOMAIN order_book.orders :
          order_book.orders[id].status # OPEN =>
            /\ order_book'.orders[id].status = order_book.orders[id].status
            /\ ~(last_op'.op = "poll" /\ last_op'.identifier = id) ]_vars

\* Two orders have left OPEN with different statuses, and the poller has just
\* handled a third order, which is still open.
C11_Witness ==
    /\ last_op.op = "poll"
    /\ order_book.orders[last_op.identifier].status = OPEN
    /\ \E i \in DOMAIN order_book.orders, j \in DOMAIN order_book.orders :
          /\ order_book.orders[i].status = CLOSED
          /\ order_book.orders[j].status \in Final \ { CLOSED }

\* The tracker is at rest: no loop and no query task is left.
TrackerAtRest(t) ==
    /\ t.mon = "none"
    /\ t.fund = "none"
    /\ t.registry = {}
    /\ ~t.cancel_mon /\ ~t.cancel_fund /\ t.cancel_child = {}

C13_RestartKeepsState ==
    [][ /\ last_op'.op \in { "stop", "start" } =>
             grid_levels' = grid_levels /\ order_book' = order_book
        /\ last_op.op = "stop" => last_op'.op = "start"
        /\ last_op'.op = "start" => monitoring' /\ funding_check' ]_vars

\* The bot was started again over a seeded grid: limit orders are open, a level
\* awaits its fill, and a market order is in the book.
C13_Witness ==
    /\ last_op.op = "start"
    /\ restarts = 1
    /\ get_open_orders(order_book) # << >>
    /\ \E l \in Levels : grid_levels[l].orders # << >>
    /\ \E id \in DOMAIN order_book.orders : order_book.orders[id].order_type = MARKET

\* The MARKET orders of a book: the initial purchases.
MarketOrders(book) ==
    { id \in DOMAIN book.orders : book.orders[id].order_type = MARKET }

\* C14: after a restart, a ticker update makes no second initial market
\* purchase and places no second limit order on a level that already has one
\* in its history.
C14_RestartPlacesNoDuplicate ==
    [][ (restarts >= 1 /\ last_op'.op = "tick") =>
          /\ MarketOrders(order_book) # {} =>
                MarketOrders(order_book') = MarketOrders(order_book)
          /\ \A l \in Levels :
                grid_levels[l].orders # << >> =>
                    grid_levels'[l].orders = grid_levels[l].orders ]_vars

\* The orders a step adds to the book.
NewOrders == DOMAIN order_book'.orders \ DOMAIN order_book.orders

\* C15: a tick with the grid not seeded and a price below the reversion price,
\* the first tick of a run included, marks the grid seeded, and what the
\* initial purchase placed precedes what initialize_grid_orders placed; a tick
\* with the grid not seeded and a price at or above the reversion price places
\* no order.
C15_TickBelowReversionSeeds ==
    [][ (last_op'.op = "tick" /\ ~grid_orders_initialized) =>
          IF last_op'.price < reversion_price
          THEN /\ grid_orders_initialized'
               /\ \A i \in NewOrders, j \in NewOrders :
                     ( order_book'.orders[i].order_type = MARKET
                       /\ order_book'.orders[j].order_type = LIMIT ) => i < j
          ELSE /\ ~grid_orders_initialized'
               /\ NewOrders = {} ]_vars

\* The limit orders of one side that a step adds to the book.
NewLimitOrders(side) ==
    { id \in NewOrders : /\ order_book'.orders[id].order_type = LIMIT
                         /\ order_book'.orders[id].side = side }

\* C16: the BUY_OPEN limit orders of one seeding are submitted in descending
\* price order, and none of them is at or above the current price.
C16_BuyOrdersDescending ==
    [][ last_op'.op = "tick" =>
          /\ \A i \in NewLimitOrders(BUY_OPEN), j \in NewLimitOrders(BUY_OPEN) :
                i < j => order_book'.orders[i].price > order_book'.orders[j].price
          /\ \A i \in NewLimitOrders(BUY_OPEN) :
                order_book'.orders[i].price < last_op'.price ]_vars

\* The state of a level permits a sell.
PermitsSell(l) ==
    \/ grid_levels[l].state = READY_TO_SELL
    \/ strategy_type = HEDGED_GRID /\ grid_levels[l].state = READY_TO_BUY_OR_SELL

\* The sell levels above the current price that initialize_grid_orders is to
\* serve, the venue accepting the order.
SellLevelsToSeed ==
    { l \in SeqRange(sorted_sell_grids) :
        /\ price_grids[l] > last_op'.price
        /\ PermitsSell(l)
        /\ last_op'.outcome[l] = "ok" }

\* C17: initialize_grid_orders places a sell-side limit order at every sell
\* level above the current price whose state permits a sell, in ascending
\* price order, registers it in the book with the level and marks the level
\* WAITING_FOR_SELL_FILL; it places none at or below the current price.
C17_SellOrdersPlaced ==
    [][ last_op'.op = "seed" =>
          /\ \A l \in SellLevelsToSeed :
                /\ grid_levels'[l].state = WAITING_FOR_SELL_FILL
                /\ \E id \in NewLimitOrders(SELL_OPEN) :
                      /\ order_book'.orders[id].price = price_grids[l]
                      /\ get_grid_level_for_order(order_book', id) = l
          /\ \A i \in NewLimitOrders(SELL_OPEN), j \in NewLimitOrders(SELL_OPEN) :
                i < j => order_book'.orders[i].price < order_book'.orders[j].price
          /\ \A i \in NewLimitOrders(SELL_OPEN) :
                order_book'.orders[i].price > last_op'.price ]_vars

\* C18: one call of initialize_grid_orders places at most max_placed_orders
\* limit orders on the buy side and at most max_placed_orders on the sell side.
C18_AtMostMaxPlacedOrders ==
    [][ last_op'.op = "seed" =>
          /\ Cardinality(NewLimitOrders(BUY_OPEN)) <= max_placed_orders
          /\ Cardinality(NewLimitOrders(SELL_OPEN)) <= max_placed_orders ]_vars

\* The orders of a book that are registered with level l.
OrdersAtLevel(book, l) ==
    { id \in DOMAIN book.order_to_grid_map : book.order_to_grid_map[id] = l }

\* C19: in initialize_grid_orders a level whose order the venue does not return
\* (it raises OrderExecutionFailedError or another exception, or returns None)
\* keeps its state and order history and gets no order in the book, and every
\* other eligible buy level still gets its order.
C19_PlacementFailureNotFatal ==
    [][ last_op'.op = "seed" =>
          \A l \in Levels :
            IF last_op'.outcome[l] # "ok"
            THEN /\ grid_levels'[l] = grid_levels[l]
                 /\ OrdersAtLevel(order_book', l) = OrdersAtLevel(order_book, l)
            ELSE ( /\ l \in SeqRange(sorted_buy_grids)
                   /\ price_grids[l] < last_op'.price
                   /\ can_place_order(strategy_type, grid_levels[l].state, BUY_OPEN) )
                 => /\ grid_levels'[l].state = WAITING_FOR_BUY_FILL
                    /\ OrdersAtLevel(order_book', l) # {} ]_vars

\* initialize_grid_orders has run; the venue returned None for a level below
\* the current price, and a level that the loop reaches after it holds its
\* order.
C19_Witness ==
    /\ last_op.op = "seed"
    /\ \E l \in Levels, k \in Levels :
          /\ l < k
          /\ price_grids[k] < last_op.price
          /\ last_op.outcome[l] = "None"
          /\ grid_levels[l].orders = << >>
          /\ grid_levels[k].state = WAITING_FOR_BUY_FILL
          /\ OrdersAtLevel(order_book, k) # {}

\* C20: after any sequence of fills and funding fees both positions are
\* non-negative, and on each side the average entry price is 0 exactly when the
\* position is 0.
C20_PositionsConsistent ==
    /\ balance.long_position >= 0
    /\ balance.short_position >= 0
    /\ (balance.long_avg_price = 0) <=> (balance.long_position = 0)
    /\ (balance.short_avg_price = 0) <=> (balance.short_position = 0)

\* A long position is held after a close has realised a profit or a loss, a
\* fill larger than the position it closed has been clamped, and a funding fee
\* has been charged.
C20_Witness ==
    /\ balance.long_position > 0
    /\ balance.long_avg_price > 0
    /\ balance.realized_pnl # 0
    /\ balance.funding_fees # 0
    /\ next_id > MaxFills

\* C21: after any sequence of fills and funding fees the margin balance is the
\* margin set up at the start plus the realized profit and loss, minus the
\* trading fees and minus the funding fees accumulated since.
C21_MarginConserved ==
    balance.margin_balance =
        setup_balances(InitialBalance).margin_balance + balance.realized_pnl
            - balance.total_fees - balance.funding_fees

\* A round trip has realised a profit, fees were paid on its fills and a funding
\* fee was charged.
C21_Witness ==
    /\ balance.realized_pnl > 0
    /\ balance.total_fees > 0
    /\ balance.funding_fees # 0
    /\ balance.long_position = 0
    /\ balance.short_position = 0

\* C22: after margin reservations, fills of the reserved orders and funding
\* fees, the available margin is never negative and the reserved margin lies
\* between 0 and the margin balance.
C22_AvailableMarginNonNegative ==
    /\ get_available_margin(balance) >= 0
    /\ balance.reserved_margin >= 0
    /\ balance.reserved_margin <= balance.margin_balance

\* C23: a grid of two levels has exactly one buy level and one sell level, in
\* SIMPLE_GRID and in HEDGED_GRID.
C23_TwoLevelsOneBuyOneSell ==
    Len(price_grids) = 2 =>
        Len(sorted_buy_grids) = 1 /\ Len(sorted_sell_grids) = 1

\* C24: can_place_order returns true exactly when the level's state permits the
\* side, for each of the four side names: BUY_OPEN needs READY_TO_BUY, the sell
\* and closing sides READY_TO_SELL, and in HEDGED_GRID READY_TO_BUY_OR_SELL
\* permits every side; a WAITING_FOR_* state permits none.
C24_Permits(st, level_state, name) ==
    \/ level_state = (IF name = "BUY_OPEN" THEN READY_TO_BUY ELSE READY_TO_SELL)
    \/ st = HEDGED_GRID /\ level_state = READY_TO_BUY_OR_SELL

C24_CanPlaceOrderMatchesState ==
    [][ last_op'.op = "can_place" =>
          last_op'.allowed = C24_Permits(strategy_type,
                                         grid_levels[last_op'.source].state,
                                         last_op'.side) ]_vars

\* C25: in SIMPLE_GRID complete_order(level, BUY_OPEN) sets the level to
\* READY_TO_SELL and complete_order(level, BUY_CLOSE) sets it to READY_TO_BUY;
\* no other level's state changes.
C25_SimpleCompleteOrder ==
    [][ (last_op'.op = "complete" /\ strategy_type = SIMPLE_GRID
            /\ last_op'.side \in { "BUY_OPEN", "BUY_CLOSE" }) =>
          /\ grid_levels'[last_op'.source].state =
                 (IF last_op'.side = "BUY_OPEN" THEN READY_TO_SELL ELSE READY_TO_BUY)
          /\ \A l \in Levels \ { last_op'.source } :
                 grid_levels'[l].state = grid_levels[l].state ]_vars

\* C26: in HEDGED_GRID complete_order(level, BUY_OPEN) sets the level to
\* READY_TO_BUY_OR_SELL and its paired sell level, if any, to READY_TO_SELL;
\* complete_order(level, BUY_CLOSE) sets the level to READY_TO_BUY_OR_SELL and its
\* paired buy level, if any, to READY_TO_BUY; every other level is unchanged.
C26_Paired(gl, level, name) ==
    IF name = "BUY_OPEN" THEN gl[level].paired_sell_level
    ELSE gl[level].paired_buy_level

C26_HedgedCompleteOrder ==
    [][ (last_op'.op = "complete" /\ strategy_type = HEDGED_GRID
            /\ last_op'.side \in { "BUY_OPEN", "BUY_CLOSE" }) =>
          LET level == last_op'.source
              p == C26_Paired(grid_levels, level, last_op'.side)
          IN  /\ grid_levels'[level].state = READY_TO_BUY_OR_SELL
              /\ p # 0 => grid_levels'[p].state =
                     (IF last_op'.side = "BUY_OPEN" THEN READY_TO_SELL
                      ELSE READY_TO_BUY)
              /\ \A l \in Levels \ { level, p } :
                     grid_levels'[l].state = grid_levels[l].state ]_vars

\* C27: get_paired_sell_level(buy_level) returns, in SIMPLE_GRID, the lowest sell
\* grid level strictly above the buy level's price on which a closing sell can be
\* placed (the level is READY_TO_SELL), in HEDGED_GRID the level immediately above
\* the buy level, and nothing (0) when there is no such level.
C27_Candidates(buy_level) ==
    IF strategy_type = SIMPLE_GRID
    THEN { s \in SeqRange(sorted_sell_grids) :
             /\ price_grids[s] > price_grids[buy_level]
             /\ grid_levels[s].state = READY_TO_SELL }
    ELSE { s \in Levels : s = buy_level + 1 }

C27_PairedSellLevel ==
    [][ last_op'.op = "paired_sell" =>
          LET c == C27_Candidates(last_op'.source)
          IN  IF c = {} THEN last_op'.target = 0
              ELSE /\ last_op'.target \in c
                   /\ \A s \in c : price_grids[last_op'.target] <= price_grids[s] ]_vars

\* C28: in the SIMPLE_GRID layout, after initialization every level strictly below
\* the reversion price is READY_TO_BUY and every level strictly above it is
\* READY_TO_SELL; sorted_buy_grids holds exactly the levels at or below the
\* reversion price and sorted_sell_grids exactly the levels above it, both in
\* ascending price order and disjoint.
C28_Ascending(s) ==
    \A i \in 1..Len(s), j \in 1..Len(s) : i < j => price_grids[s[i]] < price_grids[s[j]]

C28_SimpleLayout ==
    strategy_type = SIMPLE_GRID =>
        /\ last_op.op = "init" =>
             \A l \in Levels :
                 /\ price_grids[l] < reversion_price => grid_levels[l].state = READY_TO_BUY
                 /\ price_grids[l] > reversion_price => grid_levels[l].state = READY_TO_SELL
        /\ SeqRange(sorted_buy_grids) = { l \in Levels : price_grids[l] <= reversion_price }
        /\ SeqRange(sorted_sell_grids) = { l \in Levels : price_grids[l] > reversion_price }
        /\ C28_Ascending(sorted_buy_grids)
        /\ C28_Ascending(sorted_sell_grids)
        /\ SeqRange(sorted_buy_grids) \cap SeqRange(sorted_sell_grids) = {}

C28_Witness ==
    /\ strategy_type = SIMPLE_GRID
    /\ last_op.op = "init"
    /\ Len(sorted_buy_grids) >= 2
    /\ Len(sorted_sell_grids) >= 2
    /\ \E l \in Levels : price_grids[l] = reversion_price

\* C29: a buy fill while short_position > 0 closes min(short_position, filled) of
\* the short, adds close_qty * (short_avg - price) to realized_pnl and to
\* margin_balance, and leaves long_position alone; a buy fill while
\* short_position = 0 adds filled to long_position and sets long_avg to the
\* quantity-weighted average (whole units, rounded down); sell fills do the same
\* against long_position.  The fee of the fill is taken from margin_balance in
\* every case.
C29_Closes(position, avg, filled, pnl_per_unit, position_after, other, other_after) ==
    LET close_qty == IF position <= filled THEN position ELSE filled
        pnl == close_qty * pnl_per_unit
    IN  /\ position_after = position - close_qty
        /\ other_after = other
        /\ balance'.realized_pnl = balance.realized_pnl + pnl
        /\ balance'.margin_balance =
               balance.margin_balance + pnl
                   - calculate_fee(last_op'.filled * last_op'.price)

C29_Opens(position, avg, filled, price, position_after, avg_after) ==
    LET cost == position * avg + filled * price
    IN  /\ position_after = position + filled
        /\ IF position_after = 0 THEN avg_after = 0
           ELSE /\ avg_after * position_after <= cost
                /\ cost < (avg_after + 1) * position_after
        /\ balance'.realized_pnl = balance.realized_pnl
        /\ balance'.margin_balance =
               balance.margin_balance - calculate_fee(last_op'.filled * last_op'.price)

C29_FillSemantics ==
    [][ last_op'.op = "filled" =>
          LET filled == last_op'.filled
              price == last_op'.price
          IN  IF last_op'.side = BUY_OPEN
              THEN IF balance.short_position > 0
                   THEN C29_Closes(balance.short_position, balance.short_avg_price,
                                   filled, balance.short_avg_price - price,
                                   balance'.short_position,
                                   balance.long_position, balance'.long_position)
                   ELSE /\ C29_Opens(balance.long_position, balance.long_avg_price,
                                     filled, price,
                                     balance'.long_position, balance'.long_avg_price)
                        /\ balance'.short_position = balance.short_position
              ELSE IF balance.long_position > 0
                   THEN C29_Closes(balance.long_position, balance.long_avg_price,
                                   filled, price - balance.long_avg_price,
                                   balance'.long_position,
                                   balance.short_position, balance'.short_position)
                   ELSE /\ C29_Opens(balance.short_position, balance.short_avg_price,
                                     filled, price,
                                     balance'.short_position, balance'.short_avg_price)
                        /\ balance'.long_position = balance.long_position ]_vars

C29_Witness ==
    /\ last_op.op = "filled"
    /\ last_op.side = BUY_OPEN
    /\ last_op.filled > 0
    /\ balance.long_position = 0
    /\ balance.short_position > 0
    /\ balance.realized_pnl > 0
    /\ balance.short_avg_price # last_op.price

\* C30: a quantity q' returned by adjust_and_validate_open_long or
\* adjust_and_validate_open_short satisfies 0 < q' <= order_quantity,
\* q' >= min_contract_size and q' * price / leverage <= margin_balance; and the
\* call fails with InsufficientMarginError whenever margin_balance is below
\* threshold_ratio * order_quantity * price / leverage.
C30_ValidatedQuantity ==
    last_op.op = "done" =>
        LET q == last_op.result.quantity
        IN  /\ last_op.result.raises = "None" =>
                /\ 0 < q.num
                /\ q.num <= last_op.order_quantity * q.den
                /\ q.num >= min_contract_size * q.den
                /\ q.num * last_op.price <= last_op.margin_balance * last_op.leverage * q.den
            /\ threshold_ratio_den * last_op.margin_balance * last_op.leverage
                   < threshold_ratio_num * last_op.order_quantity * last_op.price
                 => last_op.result.raises = InsufficientMarginError

C30_Witness ==
    /\ last_op.op = "done"
    /\ last_op.result.raises = "None"
    /\ last_op.result.quantity.num
         < last_op.order_quantity * last_op.result.quantity.den
    /\ last_op.leverage > 1

\* C31: add_order files a non-conditional order into the bucket of its side only
\* (BUY_OPEN long-open, SELL_CLOSE long-close, SELL_OPEN short-open, BUY_CLOSE
\* short-close) and a conditional order into the conditional bucket only; the
\* order is recorded in the order-to-grid map when a level is given and in the
\* non-grid list otherwise, never in both.
C31_Buckets(book) ==
    [ BUY_OPEN_ |-> book.long_orders.open, SELL_CLOSE_ |-> book.long_orders.close,
      SELL_OPEN_ |-> book.short_orders.open, BUY_CLOSE_ |-> book.short_orders.close,
      conditional |-> book.conditional_orders ]

C31_BucketOf(name, order_type) ==
    IF order_type \in ConditionalTypes THEN "conditional"
    ELSE CASE name = "BUY_OPEN" -> "BUY_OPEN_"
           [] name = "SELL_CLOSE" -> "SELL_CLOSE_"
           [] name = "SELL_OPEN" -> "SELL_OPEN_"
           [] name = "BUY_CLOSE" -> "BUY_CLOSE_"

C31_AddOrderFiles ==
    [][ last_op'.op = "add_order" =>
          LET id == last_op'.identifier
              buckets == C31_Buckets(order_book')
              bucket == C31_BucketOf(last_op'.side, order_book'.orders[id].order_type)
          IN  /\ \A b \in DOMAIN buckets : (id \in SeqRange(buckets[b])) <=> (b = bucket)
              /\ (id \in DOMAIN order_book'.order_to_grid_map) <=> (last_op'.target # 0)
              /\ (id \in SeqRange(order_book'.non_grid_orders)) <=> (last_op'.target = 0)
    ]_vars

\* C34: the market order of perform_initial_purchase is in the book without a
\* grid level (get_grid_level_for_order gives none for it, it is in the non-grid
\* list); ORDER_FILLED for it changes no grid level's state or order history; and
\* a tick whose initial quantity is <= 0 places no market order.
C34_InitialPurchaseOffGrid ==
    [][ /\ \A id \in MarketOrders(order_book') :
              /\ get_grid_level_for_order(order_book', id) = 0
              /\ id \in SeqRange(order_book'.non_grid_orders)
        /\ \A id \in MarketOrders(order_book) :
              PollStep(id, CLOSED) => grid_levels' = grid_levels
        /\ (last_op'.op = "tick" /\ get_initial_order_quantity(last_op'.price) <= 0)
              => MarketOrders(order_book') = MarketOrders(order_book)
    ]_vars

C34_Witness ==
    /\ last_op.op = "poll"
    /\ last_op.identifier \in MarketOrders(order_book)
    /\ order_book.orders[last_op.identifier].status = CLOSED
    /\ \E i \in 1..Len(published) : /\ published[i].kind = ORDER_FILLED
                                    /\ published[i].identifier = last_op.identifier
    /\ \E l \in Levels : grid_levels[l].orders # << >>

\* C35: ORDER_FILLED is published at most once for an order identifier, over any
\* number of poll rounds and of stop_tracking / start_tracking cycles: it is
\* published only for an order the book holds as OPEN, which the same step
\* closes, and an order that has left OPEN never returns to it; the balance
\* changes only in a step that publishes ORDER_FILLED.
C35_FilledEvents(events) ==
    { i \in 1..Len(events) : events[i].kind = ORDER_FILLED }

C35_FilledAtMostOnce ==
    [][ /\ \A i \in C35_FilledEvents(published') :
              LET id == published'[i].identifier
              IN  /\ id \in DOMAIN order_book.orders
                  /\ order_book.orders[id].status = OPEN
                  /\ order_book'.orders[id].status = CLOSED
                  /\ \A j \in C35_FilledEvents(published') :
                         published'[j].identifier = id => j = i
        /\ \A id \in DOMAIN order_book.orders :
              order_book.orders[id].status # OPEN =>
                  order_book'.orders[id].status = order_book.orders[id].status
        /\ balance' # balance => Cardinality(C35_FilledEvents(published')) = 1
    ]_vars

C35_Witness ==
    /\ C35_FilledEvents(published) # {}
    /\ last_op.op = "poll"
    /\ \E id \in DOMAIN order_book.orders \ { last_op.identifier } :
          /\ order_book.orders[id].status = CLOSED
          /\ order_book.orders[id].order_type = LIMIT
    /\ balance.long_position > 0

\* C36: at every moment at most one order poll loop and at most one
\* funding-rate loop are active, also when start_tracking is called after the
\* poll loop has ended by an unexpected error while the funding loop runs.
C36_FundingLoops ==
    tasks.orphans + (IF Running(tasks.fund) THEN 1 ELSE 0)

C36_PollLoops == IF Running(tasks.mon) THEN 1 ELSE 0

C36_OneLoopEach ==
    /\ C36_PollLoops <= 1
    /\ C36_FundingLoops <= 1

\* C32: the ticker loop is bounded in its reconnect attempts: after max_retries
\* consecutive failed attempts it has stopped, the delay before attempt k is
\* min(5 * k, 60) seconds, a tick resets the attempt counter to 0, and a loop
\* that has exited (retries exhausted, cancellation or close_connection) has
\* closed the venue connection.
C32_BoundedReconnect ==
    \A i \in 1..Len(tasks.ticker) :
        LET loop == tasks.ticker[i]
        IN  /\ loop.failures >= max_retries =>
                   loop.pc \in { "closing_break", "exited" }
            /\ loop.pc = "backoff" => loop.delay = Min(5 * loop.retry_count, 60)
            /\ loop.pc = "watch" /\ loop.failures = 0 => loop.retry_count = 0
            /\ loop.pc = "exited" => loop.closed

\* C37: at most one ticker loop delivers ticks to the strategy: once START_BOT
\* has started a new loop, no earlier loop has a tick processed by the
\* strategy.
C37_OneTickerLoop ==
    [][ last_op'.op = "ticker" /\ last_op'.raw_status = "tick" /\ last_op'.allowed
            => last_op'.identifier = Len(tasks'.ticker) ]_vars

\* C38: is_running is true whenever the tracker loops or a ticker loop are
\* active, so that _stop never returns early as 'not running' while they are.
C38_Active ==
    \/ monitoring
    \/ funding_check
    \/ /\ connection_active
       /\ running
       /\ \E i \in 1..Len(tasks.ticker) :
              tasks.ticker[i].pc \in { "watch", "tick_sleep", "backoff", "error_sleep" }

C38_RunningWhileActive == C38_Active => is_running

\* C33: a DataFetchError while an order, market or limit, is submitted is
\* retried up to max_retries times; OrderExecutionFailedError is raised only
\* after max_retries attempts have failed, and carries side, type, symbol,
\* quantity and price.
C33_RetriedThenRaised ==
    tasks.pc = "raised" =>
        /\ tasks.attempt = execution_max_retries
        /\ tasks.error = [ name |-> OrderExecutionFailedError,
                           order_side |-> tasks.side,
                           order_type |-> tasks.order_type, pair |-> tasks.pair,
                           quantity |-> tasks.amount, price |-> tasks.price ]

\* C39: one call of execute_market_order places a new order only when every
\* earlier place_order of the call failed: the venue never accepts a second
\* order for the call.
C39_OneMarketOrder ==
    tasks.order_type = MARKET => tasks.placed <= 1

\* C40: every call of execute_market_order terminates: it returns an order or
\* raises OrderExecutionFailedError, whatever the venue answers.
C40_Terminates ==
    tasks.order_type = MARKET ~> tasks.pc \in { "returned", "raised" }
====
